---- MODULE Spec2Model ----
(***************************************************************************)
(* Retail sales backend: TTL cache (utils/cache.js), statistics and read   *)
(* queries (services/transactionService.js) and the CSV ingestion pipeline *)
(* (services/csvImportService.js), as state machines over a small table.   *)
(***************************************************************************)
EXTENDS Integers, Sequences, FiniteSets, TLC

VARIABLES
    now,      \* Date.now(), in milliseconds
    cache,    \* SimpleCache.cache: a Map from key to [value, expiresAt]
    ret,      \* what cache.get returned in the last step (Null when it made no get)
    lastOp,   \* the last call made on the cache: [name, key]
    kIn,      \* the two filter objects handed to generateKey, as supplied
    kObj,     \* the same two filter objects, as they are now
    kKey,     \* the keys generateKey returned for them
    kpc,      \* position of the key scenario
    lastSet,  \* per key: the last set() on it since the last clear(), [at, ttl, value]
    table,    \* the transactions table: the set of stored rows
    spc,      \* getStats calls: "idle", "query" (aggregate pending), "reply", "done"
    sIn,      \* getStats calls: the filters object as the caller supplied it
    sObj,     \* getStats calls: the caller's filters object as it is now
    sKey,     \* getStats calls: cacheKey
    sAgg,     \* getStats calls: the aggregate the storage computed
    sRes,     \* getStats calls: the returned result
    sHit,     \* getStats calls: TRUE when the result came from the cache
    sSeen,    \* getStats calls: the rows completed ingestions had inserted when the call began
    ipc,      \* the ingestion: "idle", "insert" (createMany pending), "ok", "raised", "done"
    iFile,    \* the ingestion: the parsed records
    iOff,     \* the ingestion: i, the offset of the current batch
    imported, \* the ingestion: imported
    errors,   \* the ingestion: errors
    iNotes,   \* the ingestion: the progress notifications emitted so far
    iSummary, \* the ingestion: the returned summary
    iNew,     \* the ingestion: the number of rows its inserts have added to the table
    iStart,   \* the ingestion: the table when it began
    committed, \* the rows stored when the last ingestion returned
    iSrc,     \* the ingestion: "buffer" or "path", the function that runs it
    iCallback, \* the ingestion: TRUE when a progressCallback was passed
    qpc,      \* getTransactions: "idle", "fetch" (findMany pending), "count", "done"
    qArgs,    \* getTransactions: its arguments
    qTimer,   \* getTransactions: the timeout timer, "off", "armed" or "fired"
    qDeadline, \* getTransactions: the instant the timer is set for
    qRows,    \* getTransactions: [rows |-> the rows findMany returned], or Null
    qOut,     \* getTransactions: what the call returned or threw
    qStart,   \* getTransactions: the instant the call issued its fetch
    upc,      \* the upload handler: "idle", "creating", "ingesting", "updating", "failing", "responded"
    uReq,     \* the upload handler: the request
    uRec,     \* the upload record of the request in csv_uploads, or Null
    uErr,     \* the upload handler: the error its catch block caught, or Null
    uResp     \* the upload handler: the response it sent, or Null

cacheVars == <<now, cache, ret, lastOp, lastSet>>
keyVars == <<kIn, kObj, kKey, kpc>>
statsVars == <<spc, sIn, sObj, sKey, sAgg, sRes, sHit, sSeen>>
ingestVars == <<ipc, iFile, iOff, imported, errors, iNotes, iSummary, iNew, iStart, committed, iSrc, iCallback>>
queryVars == <<qpc, qArgs, qTimer, qDeadline, qRows, qOut, qStart>>
uploadVars == <<upc, uReq, uRec, uErr, uResp>>
vars == <<cacheVars, keyVars, table, statsVars, ingestVars, queryVars, uploadVars>>

(***************************************************************************)
(* JavaScript values                                                       *)
(***************************************************************************)

\* JavaScript null (cache.get's "no value", an absent result).
Null == [null |-> TRUE]

\* The UTF-16 code units of the strings the model uses.
CodeUnits(s) ==
  CASE s = "North" -> <<78, 111, 114, 116, 104>>
    [] s = "South" -> <<83, 111, 117, 116, 104>>
    [] s = "East" -> <<69, 97, 115, 116>>
    [] s = "Male" -> <<77, 97, 108, 101>>
    [] s = "Female" -> <<70, 101, 109, 97, 108, 101>>
    [] s = "Beauty" -> <<66, 101, 97, 117, 116, 121>>
    [] s = "Clothing" -> <<67, 108, 111, 116, 104, 105, 110, 103>>
    [] s = "Cash" -> <<67, 97, 115, 104>>
    [] s = "UPI" -> <<85, 80, 73>>
    [] s = "VIP" -> <<86, 73, 80>>
    [] s = "new" -> <<110, 101, 119>>
    [] s = "VIP2" -> <<86, 73, 80, 50>>
    [] s = "VIP,new" -> <<86, 73, 80, 44, 110, 101, 119>>
    [] s = "VIP2,new" -> <<86, 73, 80, 50, 44, 110, 101, 119>>
    [] s = "2023-01-01" -> <<50, 48, 50, 51, 45, 48, 49, 45, 48, 49>>
    [] s = "2023-01-02" -> <<50, 48, 50, 51, 45, 48, 49, 45, 48, 50>>
    [] s = "2023-01-03" -> <<50, 48, 50, 51, 45, 48, 49, 45, 48, 51>>
    [] s = "45-13-2023" -> <<52, 53, 45, 49, 51, 45, 50, 48, 50, 51>>
    [] s = "someday" -> <<115, 111, 109, 101, 100, 97, 121>>
    [] s = "sales.csv" -> <<115, 97, 108, 101, 115, 46, 99, 115, 118>>
    [] s = "export" -> <<101, 120, 112, 111, 114, 116>>
    [] s = "notes.txt" -> <<110, 111, 116, 101, 115, 46, 116, 120, 116>>
    [] s = ".csv" -> <<46, 99, 115, 118>>
    [] s = " records failed" -> <<32, 114, 101, 99, 111, 114, 100, 115, 32, 102, 97, 105, 108, 101, 100>>
    [] s = "Alice" -> <<65, 108, 105, 99, 101>>
    [] s = "Bob" -> <<66, 111, 98>>
    [] s = "alan" -> <<97, 108, 97, 110>>
    [] s = "Bo Li" -> <<66, 111, 32, 76, 105>>
    [] s = "9811" -> <<57, 56, 49, 49>>
    [] s = "9922" -> <<57, 57, 50, 50>>
    [] s = "1198" -> <<49, 49, 57, 56>>
    [] s = "9815" -> <<57, 56, 49, 53>>
    [] s = " " -> <<32>>
    [] s = "9" -> <<57>>
    [] s = "98" -> <<57, 56>>
    [] s = "al" -> <<97, 108>>
    [] s = "Al x" -> <<65, 108, 32, 120>>
    [] s = "AL" -> <<65, 76>>
    [] s = "b" -> <<98>>
    [] s = "Query timeout" -> <<81, 117, 101, 114, 121, 32, 116, 105, 109, 101, 111, 117, 116>>
    [] s = "canceling statement due to statement timeout" -> <<99, 97, 110, 99, 101, 108, 105, 110, 103, 32, 115, 116, 97, 116, 101, 109, 101, 110, 116, 32, 100, 117, 101, 32, 116, 111, 32, 115, 116, 97, 116, 101, 109, 101, 110, 116, 32, 116, 105, 109, 101, 111, 117, 116>>
    [] s = "Can't reach database server" -> <<67, 97, 110, 39, 116, 32, 114, 101, 97, 99, 104, 32, 100, 97, 116, 97, 98, 97, 115, 101, 32, 115, 101, 114, 118, 101, 114>>
    [] s = "7" -> <<55>>
    [] s = "20" -> <<50, 48>>
    [] s = "30" -> <<51, 48>>
    [] s = "2" -> <<50>>
    [] s = "1" -> <<49>>
    [] s = "4" -> <<52>>
    [] s = "8" -> <<56>>
    [] s = "10.00" -> <<49, 48, 46, 48, 48>>
    [] s = "9.00" -> <<57, 46, 48, 48>>
    [] s = "5.00" -> <<53, 46, 48, 48>>
    [] s = "20.00" -> <<50, 48, 46, 48, 48>>
    [] s = "15.00" -> <<49, 53, 46, 48, 48>>
    [] s = "7.00" -> <<55, 46, 48, 48>>
    [] s = "6.50" -> <<54, 46, 53, 48>>
    [] s = "01-01-2023" -> <<48, 49, 45, 48, 49, 45, 50, 48, 50, 51>>
    [] s = "02-01-2023" -> <<48, 50, 45, 48, 49, 45, 50, 48, 50, 51>>
    [] s = "03-01-2023" -> <<48, 51, 45, 48, 49, 45, 50, 48, 50, 51>>
    [] s = "timeout" -> <<116, 105, 109, 101, 111, 117, 116>>
    [] s = "statement timeout" -> <<115, 116, 97, 116, 101, 109, 101, 110, 116, 32, 116, 105, 109, 101, 111, 117, 116>>
    [] s = "Timed out fetching a new connection from the connection pool. (Current connection pool timeout: 10, connection limit: 1)" ->
         <<84, 105, 109, 101, 100, 32, 111, 117, 116, 32, 102, 101, 116, 99, 104, 105, 110, 103, 32, 97, 32, 110, 101, 119, 32, 99, 111, 110, 110, 101, 99, 116, 105, 111, 110, 32, 102, 114, 111, 109, 32, 116, 104, 101, 32, 99, 111, 110, 110, 101, 99, 116, 105, 111, 110, 32, 112, 111, 111, 108, 46, 32, 40, 67, 117, 114, 114, 101, 110, 116, 32, 99, 111, 110, 110, 101, 99, 116, 105, 111, 110, 32, 112, 111, 111, 108, 32, 116, 105, 109, 101, 111, 117, 116, 58, 32, 49, 48, 44, 32, 99, 111, 110, 110, 101, 99, 116, 105, 111, 110, 32, 108, 105, 109, 105, 116, 58, 32, 49, 41>>
    [] s = "abc" -> <<97, 98, 99>>
    [] s = "0" -> <<48>>
    [] s = "" -> <<>>

\* String(n) for a non-negative integer n: its decimal digits, as code units.
RECURSIVE NumberToString(_)
NumberToString(n) ==
  IF n < 10 THEN <<48 + n>>
  ELSE NumberToString(n \div 10) \o <<48 + (n % 10)>>

\* The elements of ageRange are numbers (parseInt in the controller); the
\* elements of every other sub-filter are strings.
IsNumberArray(name) == name = "ageRange"

\* String(x) for an element x of the sub-filter called name.
ToStringOf(name, x) ==
  IF IsNumberArray(name) THEN NumberToString(x) ELSE CodeUnits(x)

\* a < b for two strings given by their code units (lexicographic).
RECURSIVE StrLess(_, _)
StrLess(a, b) ==
  IF b = <<>> THEN FALSE
  ELSE IF a = <<>> THEN TRUE
  ELSE IF Head(a) # Head(b) THEN Head(a) < Head(b)
  ELSE StrLess(Tail(a), Tail(b))

\* Math.min
Min(a, b) == IF a < b THEN a ELSE b

IsSpace(c) == c = 32

\* String.prototype.trim
RECURSIVE TrimStart(_)
TrimStart(u) ==
  IF u # <<>> /\ IsSpace(Head(u)) THEN TrimStart(Tail(u)) ELSE u

RECURSIVE TrimEnd(_)
TrimEnd(u) ==
  IF u # <<>> /\ IsSpace(u[Len(u)]) THEN TrimEnd(SubSeq(u, 1, Len(u) - 1)) ELSE u

Trim(u) == TrimEnd(TrimStart(u))

\* /^\d+$/.test(u)
IsAllDigits(u) == u # <<>> /\ \A i \in 1..Len(u) : u[i] >= 48 /\ u[i] <= 57

\* The whole term in place of its first word.
WholeTerm(u) == u

\* u.split(/\s+/).filter(w => w.length > 0)[0] for a trimmed, non-empty u
RECURSIVE FirstWord(_)
FirstWord(u) ==
  IF u = <<>> \/ IsSpace(Head(u)) THEN <<>>
  ELSE <<Head(u)>> \o FirstWord(Tail(u))

\* The number of words of u.split(/\s+/).filter(w => w.length > 0)
RECURSIVE WordCount(_)
WordCount(u) ==
  LET t == TrimStart(u)
  IN IF t = <<>> THEN 0
     ELSE 1 + WordCount(SubSeq(t, Len(FirstWord(t)) + 1, Len(t)))

\* u starts with v
StartsWith(u, v) == Len(v) <= Len(u) /\ SubSeq(u, 1, Len(v)) = v

\* Lower-casing, as the case-insensitive comparison folds letters
ToLower(u) == [i \in 1..Len(u) |-> IF u[i] >= 65 /\ u[i] <= 90 THEN u[i] + 32 ELSE u[i]]

\* u.includes(v)
Includes(u, v) ==
  \E i \in 0..(Len(u) - Len(v)) : SubSeq(u, i + 1, i + Len(v)) = v

\* The value of a run of decimal digits.
RECURSIVE DigitsValue(_)
DigitsValue(u) ==
  IF u = <<>> THEN 0 ELSE 10 * DigitsValue(SubSeq(u, 1, Len(u) - 1)) + (u[Len(u)] - 48)

\* The longest prefix of u made of decimal digits.
RECURSIVE DigitPrefix(_)
DigitPrefix(u) ==
  IF u = <<>> \/ Head(u) < 48 \/ Head(u) > 57 THEN <<>>
  ELSE <<Head(u)>> \o DigitPrefix(Tail(u))

\* NaN, which no field of the model's rows otherwise holds.
NaN == -1

\* parseInt(u, 10) for an unsigned u
ParseInt(u) ==
  LET d == DigitPrefix(TrimStart(u))
  IN IF d = <<>> THEN NaN ELSE DigitsValue(d)

\* parseFloat(u) for an unsigned decimal u, in hundredths (the DECIMAL(12,2)
\* column the value is stored in)
ParseFloat(u) ==
  LET t == TrimStart(u)
      d == DigitPrefix(t)
      rest == SubSeq(t, Len(d) + 1, Len(t))
      frac == IF rest # <<>> /\ Head(rest) = 46 THEN DigitPrefix(Tail(rest)) ELSE <<>>
      cents == SubSeq(frac \o <<48, 48>>, 1, 2)
  IN IF d = <<>> THEN NaN ELSE 100 * DigitsValue(d) + DigitsValue(cents)

\* u.split("-")
RECURSIVE SplitDash(_)
SplitDash(u) ==
  IF \A i \in 1..Len(u) : u[i] # 45 THEN <<u>>
  ELSE LET k == CHOOSE i \in 1..Len(u) : u[i] = 45 /\ \A j \in 1..(i - 1) : u[j] # 45
       IN <<SubSeq(u, 1, k - 1)>> \o SplitDash(SubSeq(u, k + 1, Len(u)))

\* Array.prototype.sort() with no comparator: ascending by String(element).
RECURSIVE SortInsert(_, _, _)
SortInsert(name, x, s) ==
  IF s = <<>> THEN <<x>>
  ELSE IF StrLess(ToStringOf(name, x), ToStringOf(name, Head(s)))
       THEN <<x>> \o s
       ELSE <<Head(s)>> \o SortInsert(name, x, Tail(s))

RECURSIVE ArraySort(_, _)
ArraySort(name, arr) ==
  IF arr = <<>> THEN <<>>
  ELSE SortInsert(name, arr[Len(arr)], ArraySort(name, SubSeq(arr, 1, Len(arr) - 1)))

(***************************************************************************)
(* Filter objects: the own properties in insertion order, each an array    *)
(***************************************************************************)

Has(filters, name) == \E i \in 1..Len(filters) : filters[i].name = name

Prop(filters, name) ==
  (CHOOSE i \in 1..Len(filters) : filters[i].name = name)

Get(filters, name) == filters[Prop(filters, name)].value

(***************************************************************************)
(* utils/cache.js                                                          *)
(***************************************************************************)

defaultTTL == 30000

\* A replacer that returns every array as it is.
ReplacerNoSort(name, value) == value

\* The replacer of generateKey: every array is sorted (in place) and returned.
Replacer(name, value) == ArraySort(name, value)

\* The filter object after JSON.stringify has run the replacer over it.
FiltersAfterKey(filters) ==
  [i \in 1..Len(filters) |->
     [name |-> filters[i].name, value |-> Replacer(filters[i].name, filters[i].value)]]

\* JSON.stringify(filters, replacer): the properties in insertion order, each
\* with its replaced value.
Normalized(filters) == FiltersAfterKey(filters)

\* `${prefix}:${normalized}`
generateKey(prefix, filters) == <<prefix, Normalized(filters)>>

\* A get that treats the instant t = expiresAt as expired already.
CacheGetValueStrict(c, key, t) ==
  IF key \notin DOMAIN c THEN Null
  ELSE IF t >= c[key].expiresAt THEN Null
  ELSE c[key].value

\* get(key): what it returns at time t.
CacheGetValue(c, key, t) ==
  IF key \notin DOMAIN c THEN Null
  ELSE IF t > c[key].expiresAt THEN Null
  ELSE c[key].value

\* get(key): the map it leaves.
CacheAfterGet(c, key, t) ==
  IF key \in DOMAIN c /\ t > c[key].expiresAt
  THEN [k \in DOMAIN c \ {key} |-> c[k]]
  ELSE c

\* A set that replaces the value of an existing entry but keeps its expiry.
CacheSetKeepExpiry(c, key, value, ttl, t) ==
  [k \in DOMAIN c \cup {key} |->
     IF k = key
     THEN [value |-> value,
           expiresAt |-> IF key \in DOMAIN c THEN c[key].expiresAt ELSE t + ttl]
     ELSE c[k]]

\* set(key, value, ttl)
CacheSet(c, key, value, ttl, t) ==
  [k \in DOMAIN c \cup {key} |->
     IF k = key THEN [value |-> value, expiresAt |-> t + ttl] ELSE c[k]]

\* A clear() that removes the statistics entries only.
CacheClearStats(c) == [k \in {j \in DOMAIN c : j[1] # "stats"} |-> c[k]]

\* clear()
CacheClear(c) == [k \in {} |-> Null]

\* clean()
CacheClean(c, t) ==
  [k \in {x \in DOMAIN c : ~(t > c[x].expiresAt)} |-> c[k]]

(***************************************************************************)
(* The transactions table                                                  *)
(***************************************************************************)

\* A stored row; amounts are in hundredths (DECIMAL(12,2)), date is the DATE
\* column as an ISO string, tags the comma-separated TEXT column or Null.
Row(id, name, phone, region, gender, age, category, payment, date, tags, qty, total, final) ==
  [transactionId |-> id, customerName |-> name, phoneNumber |-> phone,
   customerRegion |-> region, gender |-> gender, age |-> age,
   productCategory |-> category, paymentMethod |-> payment, date |-> date,
   tags |-> tags, quantity |-> qty, totalAmount |-> total, finalAmount |-> final]

Row1 == Row("T1", "Alice", "9811", "North", "Male", 7, "Beauty", "Cash", "2023-01-01", [s |-> "VIP,new"], 2, 1000, 900)
Row2 == Row("T2", "Bob", "9922", "South", "Female", 20, "Clothing", "UPI", "2023-01-02", [s |-> "new"], 1, 500, 500)
Row3 == Row("T3", "alan", "1198", "North", "Female", 30, "Beauty", "UPI", "2023-01-03", Null, 4, 2000, 1500)
Row4 == Row("T4", "Bo Li", "9815", "East", "Male", 7, "Clothing", "Cash", "2023-01-02", [s |-> "VIP2"], 8, 700, 650)

\* new Date(s) for an ISO calendar date: days since 2023-01-01 (UTC midnight).
DateValue(s) ==
  CASE s = "2023-01-01" -> 0
    [] s = "2023-01-02" -> 1
    [] s = "2023-01-03" -> 2

Elements(arr) == {arr[i] : i \in 1..Len(arr)}

RECURSIVE SumOf(_, _)
SumOf(rows, field) ==
  IF rows = {} THEN 0
  ELSE LET r == CHOOSE x \in rows : TRUE
       IN r[field] + SumOf(rows \ {r}, field)

(***************************************************************************)
(* services/transactionService.js: the where clause of getTransactions     *)
(***************************************************************************)

\* A search that also tries a one-character term against the customer name.
SearchConditionNameToo(r, search) ==
  LET term == Trim(CodeUnits(search))
  IN IF search # "" /\ Len(term) >= 1
     THEN \/ StartsWith(CodeUnits(r.phoneNumber), term)
          \/ StartsWith(ToLower(CodeUnits(r.customerName)), ToLower(FirstWord(term)))
     ELSE TRUE

\* The search condition pushed onto andConditions (TRUE when none is pushed).
SearchCondition(r, search) ==
  LET term == Trim(CodeUnits(search))
  IN IF search # "" /\ Len(term) >= 2
     THEN IF IsAllDigits(term)
          THEN StartsWith(CodeUnits(r.phoneNumber), term)
          ELSE StartsWith(ToLower(CodeUnits(r.customerName)), ToLower(FirstWord(term)))
     ELSE IF search # "" /\ Len(term) = 1
          THEN StartsWith(CodeUnits(r.phoneNumber), term)
          ELSE TRUE

\* A tag condition that wants a requested tag to be the whole tag string.
TagConditionWhole(r, tags) ==
  \E i \in 1..Len(tags) : r.tags # Null /\ r.tags.s = tags[i]

\* tags: { contains: tag }, ORed over the requested tags
TagCondition(r, tags) ==
  \E i \in 1..Len(tags) :
     r.tags # Null /\ Includes(CodeUnits(r.tags.s), CodeUnits(tags[i]))

\* A where clause that admits a row on any one of the region and age sub-filters.
TxWhereEither(r, search, filters) ==
  /\ SearchCondition(r, search)
  /\ (Has(filters, "tags") /\ Len(Get(filters, "tags")) > 0)
        => TagCondition(r, Get(filters, "tags"))
  /\ \/ ~Has(filters, "regions") \/ ~Has(filters, "ageRange")
     \/ r.customerRegion \in Elements(Get(filters, "regions"))
     \/ /\ r.age >= Get(filters, "ageRange")[1]
        /\ r.age <= Get(filters, "ageRange")[2]

\* The where clause getTransactions builds.
TxWhere(r, search, filters) ==
  /\ SearchCondition(r, search)
  /\ (Has(filters, "tags") /\ Len(Get(filters, "tags")) > 0)
        => TagCondition(r, Get(filters, "tags"))
  /\ (Has(filters, "regions") /\ Len(Get(filters, "regions")) > 0)
        => r.customerRegion \in Elements(Get(filters, "regions"))
  /\ (Has(filters, "genders") /\ Len(Get(filters, "genders")) > 0)
        => r.gender \in Elements(Get(filters, "genders"))
  /\ (Has(filters, "ageRange") /\ Len(Get(filters, "ageRange")) = 2)
        => /\ r.age >= Get(filters, "ageRange")[1]
           /\ r.age <= Get(filters, "ageRange")[2]
  /\ (Has(filters, "categories") /\ Len(Get(filters, "categories")) > 0)
        => r.productCategory \in Elements(Get(filters, "categories"))
  /\ (Has(filters, "paymentMethods") /\ Len(Get(filters, "paymentMethods")) > 0)
        => r.paymentMethod \in Elements(Get(filters, "paymentMethods"))
  /\ (Has(filters, "dateRange") /\ Len(Get(filters, "dateRange")) = 2)
        => /\ DateValue(r.date) >= DateValue(Get(filters, "dateRange")[1])
           /\ DateValue(r.date) <= DateValue(Get(filters, "dateRange")[2])

(***************************************************************************)
(* services/transactionService.js: getTransactions                         *)
(***************************************************************************)

queryTimeout == 15000

\* An offset that counts pages from 0.
SkipFromPage(page, pageSize) == page * pageSize

\* skip = (page - 1) * pageSize
Skip(page, pageSize) == (page - 1) * pageSize

\* The orderBy clause: the switch on sortBy, with its default.
OrderBy(sortBy, sortOrder) ==
  CASE sortBy = "date" -> [field |-> "date", dir |-> sortOrder]
    [] sortBy = "quantity" -> [field |-> "quantity", dir |-> sortOrder]
    [] sortBy = "customerName" -> [field |-> "customerName", dir |-> sortOrder]
    [] OTHER -> [field |-> "customerName", dir |-> "asc"]

\* Row a may precede row b under orderBy (rows with equal keys in any order;
\* names compare by code unit).
MayPrecede(a, b, orderBy) ==
  LET le(x, y) ==
        CASE orderBy.field = "date" -> DateValue(x.date) <= DateValue(y.date)
          [] orderBy.field = "quantity" -> x.quantity <= y.quantity
          [] OTHER -> ~StrLess(CodeUnits(y.customerName), CodeUnits(x.customerName))
  IN IF orderBy.dir = "asc" THEN le(a, b) ELSE le(b, a)

\* The orders in which the storage may list rows under orderBy.
Orderings(rows, orderBy) ==
  LET n == Cardinality(rows)
  IN {s \in [1..n -> rows] :
        /\ \A i, j \in 1..n : i # j => s[i] # s[j]
        /\ \A i \in 1..(n - 1) : MayPrecede(s[i], s[i + 1], orderBy)}

\* The select clause (the columns the model's rows carry).
Select(r) ==
  [transactionId |-> r.transactionId, date |-> r.date,
   customerName |-> r.customerName, phoneNumber |-> r.phoneNumber,
   gender |-> r.gender, age |-> r.age, productCategory |-> r.productCategory,
   quantity |-> r.quantity, totalAmount |-> r.totalAmount,
   customerRegion |-> r.customerRegion]

\* skip / take over an ordered listing
SkipTake(s, skip, take) ==
  [i \in 1..(IF Len(s) > skip THEN Min(Len(s) - skip, take) ELSE 0) |-> Select(s[skip + i])]

\* The rows where matches.
Matching(tbl, search, filters) == {r \in tbl : TxWhere(r, search, filters)}

\* The results prisma.transaction.findMany may resolve to.
FindMany(tbl, a) ==
  {SkipTake(s, Skip(a.page, a.pageSize), a.pageSize) :
     s \in Orderings(Matching(tbl, a.search, a.filters), OrderBy(a.sortBy, a.sortOrder))}

\* prisma.transaction.count({ where })
Count(tbl, a) == Cardinality(Matching(tbl, a.search, a.filters))

\* Math.ceil(a / b)
Ceil(a, b) == (a + b - 1) \div b

\* The value returned on the normal path.
PageResult(a, rows, totalCount) ==
  [kind |-> "result",
   transactions |-> rows,
   pagination |-> [page |-> a.page, pageSize |-> a.pageSize,
                   totalCount |-> totalCount,
                   totalPages |-> Ceil(totalCount, a.pageSize)]]

\* The value the catch block returns for a timeout.
EmptyPage(a) ==
  [kind |-> "result",
   transactions |-> <<>>,
   pagination |-> [page |-> a.page, pageSize |-> a.pageSize,
                   totalCount |-> 0, totalPages |-> 0]]

\* A variant of the catch test that looks for a statement timeout only.
IsTimeoutStatementOnly(message) ==
  Includes(CodeUnits(message), CodeUnits("statement timeout"))

\* The test of the catch block on error.message
IsTimeout(message) ==
  \/ message = "Query timeout"
  \/ Includes(CodeUnits(message), CodeUnits("timeout"))
  \/ Includes(CodeUnits(message), CodeUnits("statement timeout"))

\* The catch block: an empty page for a timeout, the error rethrown otherwise.
Catch(a, message) ==
  IF IsTimeout(message) THEN EmptyPage(a)
  ELSE [kind |-> "error", message |-> message]

\* A count that would race a timer of its own, set when it is issued.
CountDeadlineFresh(deadline, t) == t + queryTimeout

\* The instant at which the race of the count is rejected: the count races the
\* timeoutPromise made before the fetch.
CountDeadline(deadline, t) == deadline

\* A test that takes the total from any short page.
TotalInferredAnyPage(rows, skip, take) == Len(rows) < take

\* transactions.length < take && skip === 0: the total is the page length.
TotalInferred(rows, skip, take) == Len(rows) < take /\ skip = 0

\* The instants of the clock, and the last of them.
QueryInstants == {0, 1000, 15000, 16000}
LastInstant == CHOOSE t \in QueryInstants : \A u \in QueryInstants : u <= t

QueryIdle ==
  /\ qpc = "idle" /\ qArgs = Null /\ qTimer = "off"
  /\ qDeadline = 0 /\ qRows = Null /\ qOut = Null /\ qStart = 0

\* getTransactions(a) up to its first await: where and orderBy are built, the
\* timer is set and findMany is issued. Calls are made while the instant their
\* timer is due at is still on the clock.
TxCall(a) ==
  /\ qpc = "idle"
  /\ now + queryTimeout <= LastInstant
  /\ qpc' = "fetch"
  /\ qArgs' = a
  /\ qTimer' = "armed"
  /\ qDeadline' = now + queryTimeout
  /\ qStart' = now
  /\ qRows' = Null
  /\ qOut' = Null
  /\ lastOp' = [name |-> "getTransactions", key |-> Null]
  /\ ret' = Null
  /\ UNCHANGED <<now, cache, lastSet, table, keyVars, statsVars, ingestVars, uploadVars>>

\* findMany resolves: the total is the page length on a short first page,
\* otherwise the count is issued.
FetchReply ==
  /\ qpc = "fetch"
  /\ \E rows \in FindMany(table, qArgs) :
       /\ qRows' = [rows |-> rows]
       /\ IF TotalInferred(rows, Skip(qArgs.page, qArgs.pageSize), qArgs.pageSize)
          THEN /\ qpc' = "done"
               /\ qOut' = PageResult(qArgs, rows, Len(rows))
          ELSE /\ qpc' = "count"
               /\ qOut' = Null
  /\ qDeadline' = CountDeadline(qDeadline, now)
  /\ lastOp' = [name |-> "findMany", key |-> Null]
  /\ ret' = Null
  /\ UNCHANGED <<now, cache, lastSet, table, keyVars, statsVars, ingestVars, uploadVars, qArgs, qTimer, qStart>>

\* count resolves: the page is formatted and returned.
CountReply ==
  /\ qpc = "count"
  /\ qpc' = "done"
  /\ qOut' = PageResult(qArgs, qRows.rows, Count(table, qArgs))
  /\ lastOp' = [name |-> "count", key |-> Null]
  /\ ret' = Null
  /\ UNCHANGED <<now, cache, lastSet, table, keyVars, statsVars, ingestVars, uploadVars, qArgs, qTimer, qDeadline, qRows, qStart>>

\* The pending storage operation rejects with an error of its own.
StorageError(message) ==
  /\ qpc \in {"fetch", "count"}
  /\ qpc' = "done"
  /\ qOut' = Catch(qArgs, message)
  /\ lastOp' = [name |-> "reject", key |-> [s |-> message]]
  /\ ret' = Null
  /\ UNCHANGED <<now, cache, lastSet, table, keyVars, statsVars, ingestVars, uploadVars, qArgs, qTimer, qDeadline, qRows, qStart>>

\* The timer fires: timeoutPromise rejects with "Query timeout"; if the call is
\* still awaiting a race, the race rejects and the catch block runs.
TimerFires ==
  /\ qTimer = "armed"
  /\ now >= qDeadline
  /\ qTimer' = "fired"
  /\ IF qpc \in {"fetch", "count"}
     THEN /\ qpc' = "done"
          /\ qOut' = Catch(qArgs, "Query timeout")
     ELSE UNCHANGED <<qpc, qOut>>
  /\ lastOp' = [name |-> "timer", key |-> Null]
  /\ ret' = Null
  /\ UNCHANGED <<now, cache, lastSet, table, keyVars, statsVars, ingestVars, uploadVars, qArgs, qDeadline, qRows, qStart>>

\* The caller has taken the outcome; the next call may start once the timer of
\* this one has gone off.
TxDone ==
  /\ qpc = "done"
  /\ qTimer = "fired"
  /\ qpc' = "idle"
  /\ qArgs' = Null
  /\ qTimer' = "off"
  /\ qDeadline' = 0
  /\ qStart' = 0
  /\ qRows' = Null
  /\ qOut' = Null
  /\ lastOp' = [name |-> "done", key |-> Null]
  /\ ret' = Null
  /\ UNCHANGED <<now, cache, lastSet, table, keyVars, statsVars, ingestVars, uploadVars>>

(***************************************************************************)
(* services/transactionService.js: getStats                                *)
(***************************************************************************)

statsTTL == 30000

\* The where clause getStats builds from the filters object it holds.
StatsWhere(r, filters) ==
  /\ (Has(filters, "regions") /\ Len(Get(filters, "regions")) > 0)
        => r.customerRegion \in Elements(Get(filters, "regions"))
  /\ (Has(filters, "genders") /\ Len(Get(filters, "genders")) > 0)
        => r.gender \in Elements(Get(filters, "genders"))
  /\ (Has(filters, "ageRange") /\ Len(Get(filters, "ageRange")) = 2)
        => /\ r.age >= Get(filters, "ageRange")[1]
           /\ r.age <= Get(filters, "ageRange")[2]
  /\ (Has(filters, "categories") /\ Len(Get(filters, "categories")) > 0)
        => r.productCategory \in Elements(Get(filters, "categories"))
  /\ (Has(filters, "paymentMethods") /\ Len(Get(filters, "paymentMethods")) > 0)
        => r.paymentMethod \in Elements(Get(filters, "paymentMethods"))
  /\ (Has(filters, "dateRange") /\ Len(Get(filters, "dateRange")) = 2)
        => /\ DateValue(r.date) >= DateValue(Get(filters, "dateRange")[1])
           /\ DateValue(r.date) <= DateValue(Get(filters, "dateRange")[2])

\* prisma.transaction.aggregate({where, _sum: {quantity, totalAmount, finalAmount}})
\* over the table as it is; with no matching row every sum is null, which the
\* caller's `|| 0` turns into 0.
Aggregate(tbl, filters) ==
  LET rows == {r \in tbl : StatsWhere(r, filters)}
  IN [quantity |-> SumOf(rows, "quantity"),
      totalAmount |-> SumOf(rows, "totalAmount"),
      finalAmount |-> SumOf(rows, "finalAmount")]

\* The result object getStats builds from the aggregate.
StatsResult(agg) ==
  [totalUnits |-> agg.quantity,
   totalAmount |-> agg.totalAmount,
   totalDiscount |-> agg.totalAmount - agg.finalAmount]

NoCall == [p \in {1, 2} |-> Null]

\* The map m with rec noted under key.
Record(m, key, rec) ==
  [k \in DOMAIN m \cup {key} |-> IF k = key THEN rec ELSE m[k]]

EmptyMap == [k \in {} |-> Null]

StatsIdle ==
  /\ spc = [p \in {1, 2} |-> "idle"]
  /\ sIn = NoCall /\ sObj = NoCall /\ sKey = NoCall
  /\ sAgg = NoCall /\ sRes = NoCall
  /\ sHit = [p \in {1, 2} |-> FALSE]
  /\ sSeen = [p \in {1, 2} |-> {}]

\* getStats(filters) up to its first await: the key is generated (sorting the
\* caller's arrays), the cache is read, and on a miss the aggregate is issued.
StatsCall(p, F) ==
  /\ spc[p] = "idle"
  /\ LET key == generateKey("stats", F)
         obj == FiltersAfterKey(F)
         cached == CacheGetValue(cache, key, now)
     IN /\ sIn' = [sIn EXCEPT ![p] = F]
        /\ sSeen' = [sSeen EXCEPT ![p] = committed]
        /\ sObj' = [sObj EXCEPT ![p] = obj]
        /\ sKey' = [sKey EXCEPT ![p] = key]
        /\ cache' = CacheAfterGet(cache, key, now)
        /\ ret' = cached
        /\ lastOp' = [name |-> "getStats", key |-> key]
        /\ sAgg' = [sAgg EXCEPT ![p] = Null]
        /\ IF cached # Null
           THEN /\ spc' = [spc EXCEPT ![p] = "done"]
                /\ sRes' = [sRes EXCEPT ![p] = cached]
                /\ sHit' = [sHit EXCEPT ![p] = TRUE]
           ELSE /\ spc' = [spc EXCEPT ![p] = "query"]
                /\ sRes' = [sRes EXCEPT ![p] = Null]
                /\ sHit' = [sHit EXCEPT ![p] = FALSE]
  /\ UNCHANGED <<now, lastSet, table, keyVars, ingestVars, queryVars, uploadVars>>

\* The storage evaluates the pending aggregate over the table as it is now.
StatsQuery(p) ==
  /\ spc[p] = "query"
  /\ sAgg' = [sAgg EXCEPT ![p] = Aggregate(table, sObj[p])]
  /\ spc' = [spc EXCEPT ![p] = "reply"]
  /\ lastOp' = [name |-> "aggregate", key |-> sKey[p]]
  /\ ret' = Null
  /\ UNCHANGED <<now, cache, lastSet, table, keyVars, ingestVars, sIn, sObj, sKey, sRes, sHit, sSeen, queryVars, uploadVars>>

\* The response of getStatsHandler's catch block.
StatsFailure(message) ==
  [status |-> 500,
   body |-> [message |-> "Failed to fetch statistics", error |-> message]]

\* The pending aggregate rejects: getStats has no catch, so the error leaves it
\* (nothing is cached) and getStatsHandler answers with status 500.
StatsFail(p, message) ==
  /\ spc[p] = "query"
  /\ spc' = [spc EXCEPT ![p] = "failed"]
  /\ sRes' = [sRes EXCEPT ![p] = StatsFailure(message)]
  /\ lastOp' = [name |-> "reject", key |-> [s |-> message]]
  /\ ret' = Null
  /\ UNCHANGED <<now, cache, lastSet, table, keyVars, ingestVars, sIn, sObj, sKey, sAgg, sHit, sSeen, queryVars, uploadVars>>

\* getStats after the await returning the result without caching it.
StatsReturnNoStore(p) ==
  /\ spc[p] = "reply"
  /\ sRes' = [sRes EXCEPT ![p] = StatsResult(sAgg[p])]
  /\ spc' = [spc EXCEPT ![p] = "done"]
  /\ lastOp' = [name |-> "set", key |-> sKey[p]]
  /\ ret' = Null
  /\ UNCHANGED <<now, cache, lastSet, table, keyVars, ingestVars, sIn, sObj, sKey, sAgg, sHit, sSeen, queryVars, uploadVars>>

\* getStats after the await: the result is built, cached for 30 s and returned.
StatsReturn(p) ==
  /\ spc[p] = "reply"
  /\ LET result == StatsResult(sAgg[p])
     IN /\ cache' = CacheSet(cache, sKey[p], result, statsTTL, now)
        /\ lastSet' = Record(lastSet, sKey[p], [at |-> now, ttl |-> statsTTL, value |-> result])
        /\ sRes' = [sRes EXCEPT ![p] = result]
  /\ spc' = [spc EXCEPT ![p] = "done"]
  /\ lastOp' = [name |-> "set", key |-> sKey[p]]
  /\ ret' = Null
  /\ UNCHANGED <<now, table, keyVars, ingestVars, sIn, sObj, sKey, sAgg, sHit, sSeen, queryVars, uploadVars>>

\* The caller has taken the result; the slot is free for the next call.
StatsDone(p) ==
  /\ spc[p] = "done"
  /\ spc' = [spc EXCEPT ![p] = "idle"]
  /\ sIn' = [sIn EXCEPT ![p] = Null]
  /\ sObj' = [sObj EXCEPT ![p] = Null]
  /\ sKey' = [sKey EXCEPT ![p] = Null]
  /\ sAgg' = [sAgg EXCEPT ![p] = Null]
  /\ sRes' = [sRes EXCEPT ![p] = Null]
  /\ sHit' = [sHit EXCEPT ![p] = FALSE]
  /\ sSeen' = [sSeen EXCEPT ![p] = {}]
  /\ lastOp' = [name |-> "done", key |-> Null]
  /\ ret' = Null
  /\ UNCHANGED <<now, cache, lastSet, table, keyVars, ingestVars, queryVars, uploadVars>>

(***************************************************************************)
(* services/csvImportService.js                                            *)
(***************************************************************************)

\* const batchSize = 1000 in the source; scaled down so that files of a few
\* records span several batches.
batchSize == 2

\* record[a] || record[b] || record[c]: is any of the columns present and non-empty
HasColumn(record, names) ==
  \E i \in 1..Len(names) : names[i] \in DOMAIN record /\ record[names[i]] # ""

\* record[a] || record[b] || record[c], when one of them is
Column(record, names) ==
  LET present(i) == names[i] \in DOMAIN record /\ record[names[i]] # ""
      first == CHOOSE i \in 1..Len(names) : present(i) /\ \A j \in 1..(i - 1) : ~present(j)
  IN record[names[first]]

\* The calendar dates the model knows, as new Date(...) yields them.
DateStrings == {"2023-01-01", "2023-01-02", "2023-01-03"}

\* new Date(): the current date.
Today == "2023-01-03"

\* The Date whose time value is NaN.
InvalidDate == "Invalid Date"

\* new Date(u) for the code units u: the calendar date they spell in ISO
\* form, and otherwise an invalid Date.
NewDate(u) ==
  IF \E d \in DateStrings : CodeUnits(d) = u
  THEN CHOOSE d \in DateStrings : CodeUnits(d) = u
  ELSE InvalidDate

\* parseDate(dateStr)
parseDate(present, dateStr) ==
  IF ~present THEN Today
  ELSE LET u == CodeUnits(dateStr)
           parts == SplitDash(u)
       IN IF Len(parts) = 3
          THEN IF Len(parts[1]) = 2
               THEN NewDate(parts[3] \o <<45>> \o parts[2] \o <<45>> \o parts[1])
               ELSE NewDate(u)
          ELSE IF NewDate(u) = InvalidDate THEN Today ELSE NewDate(u)

\* The number a numeric column is coerced to: parse(record[..] || "0")
IntColumn(record, names) ==
  ParseInt(CodeUnits(IF HasColumn(record, names) THEN Column(record, names) ELSE "0"))

FloatColumn(record, names) ==
  ParseFloat(CodeUnits(IF HasColumn(record, names) THEN Column(record, names) ELSE "0"))

\* The object the batch.map callback builds from one parsed record.
MapRecord(record) ==
  [transactionId |-> Column(record, <<"Transaction ID", "transaction_id", "TransactionID">>),
   customerName |-> Column(record, <<"Customer Name", "customer_name", "CustomerName">>),
   phoneNumber |-> Column(record, <<"Phone Number", "phone_number", "PhoneNumber">>),
   customerRegion |-> Column(record, <<"Customer Region", "customer_region", "CustomerRegion">>),
   gender |-> Column(record, <<"Gender", "gender">>),
   age |-> IntColumn(record, <<"Age", "age">>),
   productCategory |-> Column(record, <<"Product Category", "product_category", "ProductCategory">>),
   paymentMethod |-> Column(record, <<"Payment Method", "payment_method", "PaymentMethod">>),
   date |-> parseDate(HasColumn(record, <<"Date", "date">>),
                      IF HasColumn(record, <<"Date", "date">>)
                      THEN Column(record, <<"Date", "date">>) ELSE ""),
   tags |-> IF HasColumn(record, <<"Tags", "tags">>)
            THEN [s |-> Column(record, <<"Tags", "tags">>)] ELSE Null,
   quantity |-> IntColumn(record, <<"Quantity", "quantity">>),
   totalAmount |-> FloatColumn(record, <<"Total Amount", "total_amount", "TotalAmount">>),
   finalAmount |-> FloatColumn(record, <<"Final Amount", "final_amount", "FinalAmount">>)]

\* A slice that runs one record into the next batch.
BatchAtOverlapping(records, i) == SubSeq(records, i + 1, Min(i + batchSize + 1, Len(records)))

\* records.slice(i, i + batchSize)
BatchAt(records, i) == SubSeq(records, i + 1, Min(i + batchSize, Len(records)))

\* batch.map(...).filter(item => item !== null)
TransactionData(batch) == [j \in 1..Len(batch) |-> MapRecord(batch[j])]

\* createMany can store data: the INTEGER columns take whole numbers and the
\* DATE column a valid date; a NaN or an invalid Date among the values makes
\* the call reject.
Storable(data) ==
  \A j \in 1..Len(data) :
     data[j].age # NaN /\ data[j].quantity # NaN /\ data[j].date # InvalidDate

\* A createMany that stores every row handed to it.
RECURSIVE CreateManyKeepAll(_, _)
CreateManyKeepAll(tbl, data) ==
  IF data = <<>> THEN tbl
  ELSE CreateManyKeepAll(tbl \cup {Head(data)}, Tail(data))

\* prisma.transaction.createMany({data, skipDuplicates: true}) under the
\* unique index on transactionId: a row whose transactionId is already
\* stored, or occurs earlier in data, is skipped.
RECURSIVE CreateMany(_, _)
CreateMany(tbl, data) ==
  IF data = <<>> THEN tbl
  ELSE IF \E r \in tbl : r.transactionId = Head(data).transactionId
       THEN CreateMany(tbl, Tail(data))
       ELSE CreateMany(tbl \cup {Head(data)}, Tail(data))

\* errors after the insert of batch raised, counting one error for the batch.
ErrorsAfterRaiseOne(e, batch) == e + 1

\* errors after the insert of batch raised: errors += batch.length
ErrorsAfterRaise(e, batch) == e + Len(batch)

\* imported after a successful insert that also counts the rows of the batch
\* a second time.
ImportedAfterInsertTwice(n, data) == n + 2 * Len(data)

\* imported after the insert of data succeeded: imported += transactionData.length
ImportedAfterInsert(n, data) == n + Len(data)

\* A progress notification that reports the rows before the batch at offset i.
ProgressAtOffset(i, total, imp, err) ==
  [processed |-> i, total |-> total, imported |-> imp, errors |-> err]

\* The progress notification after the batch at offset i.
Progress(i, total, imp, err) ==
  [processed |-> Min(i + batchSize, total), total |-> total, imported |-> imp, errors |-> err]

\* The summary an ingestion returns.
Summary(total, imp, err) ==
  [success |-> TRUE, totalRecords |-> total, imported |-> imp, errors |-> err]

IngestIdle ==
  /\ ipc = "idle" /\ iFile = <<>> /\ iOff = 0
  /\ imported = 0 /\ errors = 0
  /\ iNotes = <<>> /\ iSummary = Null
  /\ iNew = 0 /\ iStart = {} /\ committed = {}
  /\ iSrc = "buffer" /\ iCallback = FALSE

\* An ingestion function up to its first await, run by the function src: the
\* records are parsed and the first batch insert is issued; with no record the
\* loop is skipped, the cache cleared and the summary returned.
ImportBegin(src, records, callback) ==
  /\ ipc \in {"idle", "done"}
  /\ iSrc' = src
  /\ iCallback' = callback
  /\ iFile' = records
  /\ iOff' = 0
  /\ imported' = 0
  /\ errors' = 0
  /\ iNotes' = <<>>
  /\ iNew' = 0
  /\ iStart' = table
  /\ IF Len(records) = 0
     THEN /\ ipc' = "done"
          /\ iSummary' = Summary(0, 0, 0)
          /\ cache' = CacheClear(cache)
          /\ lastSet' = EmptyMap
          /\ lastOp' = [name |-> "clear", key |-> Null]
     ELSE /\ ipc' = "insert"
          /\ iSummary' = Null
          /\ lastOp' = [name |-> "import", key |-> Null]
          /\ UNCHANGED <<cache, lastSet>>
  /\ ret' = Null
  /\ UNCHANGED <<now, table, committed, statsVars, keyVars, queryVars>>

\* importTransactionsFromBuffer(fileBuffer, progressCallback) up to its first
\* await.
ImportCall(records, callback) ==
  /\ upc \in {"idle", "responded"}
  /\ ImportBegin("buffer", records, callback)
  /\ UNCHANGED uploadVars

\* importTransactionsFromCSV(filePath, progressCallback) up to its first
\* await: the file is read and parsed and the first batch insert is issued.
ImportCsvCall(records, callback) ==
  /\ upc \in {"idle", "responded"}
  /\ ImportBegin("path", records, callback)
  /\ UNCHANGED uploadVars

\* The storage runs the pending createMany.
InsertRun ==
  /\ ipc = "insert"
  /\ Storable(TransactionData(BatchAt(iFile, iOff)))
  /\ table' = CreateMany(table, TransactionData(BatchAt(iFile, iOff)))
  /\ iNew' = iNew + Cardinality(table' \ table)
  /\ ipc' = "ok"
  /\ lastOp' = [name |-> "createMany", key |-> Null]
  /\ ret' = Null
  /\ UNCHANGED <<now, cache, lastSet, statsVars, keyVars,
                 iFile, iOff, imported, errors, iNotes, iSummary, iStart, committed, iSrc, iCallback, queryVars, uploadVars>>

\* The storage fails the pending createMany; nothing is stored.
InsertRaise ==
  /\ ipc = "insert"
  /\ ipc' = "raised"
  /\ lastOp' = [name |-> "createMany", key |-> Null]
  /\ ret' = Null
  /\ UNCHANGED <<now, cache, lastSet, table, statsVars, keyVars,
                 iFile, iOff, imported, errors, iNotes, iSummary, iNew, iStart, committed, iSrc, iCallback, queryVars, uploadVars>>

\* importTransactionsFromBuffer after the await: the batch is counted, progress is reported
\* when a callback was passed,
\* and either the next batch insert is issued or the cache is cleared and the
\* summary returned.
ImportResume ==
  /\ iSrc = "buffer"
  /\ ipc \in {"ok", "raised"}
  /\ LET batch == BatchAt(iFile, iOff)
         total == Len(iFile)
         imp == IF ipc = "ok" THEN ImportedAfterInsert(imported, TransactionData(batch))
                ELSE imported
         err == IF ipc = "raised" THEN ErrorsAfterRaise(errors, batch) ELSE errors
     IN /\ imported' = imp
        /\ errors' = err
        /\ iNotes' = IF iCallback THEN Append(iNotes, Progress(iOff, total, imp, err))
                      ELSE iNotes
        /\ IF iOff + batchSize < total
           THEN /\ iOff' = iOff + batchSize
                /\ ipc' = "insert"
                /\ lastOp' = [name |-> "import", key |-> Null]
                /\ UNCHANGED <<cache, lastSet, iSummary, committed>>
           ELSE /\ ipc' = "done"
                /\ cache' = CacheClear(cache)
                /\ lastSet' = EmptyMap
                /\ lastOp' = [name |-> "clear", key |-> Null]
                /\ iSummary' = Summary(total, imp, err)
                /\ committed' = table
                /\ UNCHANGED iOff
  /\ ret' = Null
  /\ UNCHANGED <<now, table, statsVars, keyVars, iFile, iNew, iStart, iSrc, iCallback, queryVars, uploadVars>>

\* importTransactionsFromCSV after the await, returning its summary without
\* clearing the cache.
ImportCsvResumeKeepCache ==
  /\ iSrc = "path"
  /\ ipc \in {"ok", "raised"}
  /\ LET batch == BatchAt(iFile, iOff)
         total == Len(iFile)
         imp == IF ipc = "ok" THEN ImportedAfterInsert(imported, TransactionData(batch))
                ELSE imported
         err == IF ipc = "raised" THEN ErrorsAfterRaise(errors, batch) ELSE errors
     IN /\ imported' = imp
        /\ errors' = err
        /\ iNotes' = IF iCallback THEN Append(iNotes, Progress(iOff, total, imp, err))
                      ELSE iNotes
        /\ IF iOff + batchSize < total
           THEN /\ iOff' = iOff + batchSize
                /\ ipc' = "insert"
                /\ lastOp' = [name |-> "import", key |-> Null]
                /\ UNCHANGED <<cache, lastSet, iSummary, committed>>
           ELSE /\ ipc' = "done"
                /\ lastOp' = [name |-> "import", key |-> Null]
                /\ UNCHANGED <<cache, lastSet>>
                /\ iSummary' = Summary(total, imp, err)
                /\ committed' = table
                /\ UNCHANGED iOff
  /\ ret' = Null
  /\ UNCHANGED <<now, table, statsVars, keyVars, iFile, iNew, iStart, iSrc, iCallback, queryVars, uploadVars>>

\* importTransactionsFromCSV after the await: the batch is counted, progress is reported
\* when a callback was passed,
\* and either the next batch insert is issued or the cache is cleared and the
\* summary returned.
ImportCsvResume ==
  /\ iSrc = "path"
  /\ ipc \in {"ok", "raised"}
  /\ LET batch == BatchAt(iFile, iOff)
         total == Len(iFile)
         imp == IF ipc = "ok" THEN ImportedAfterInsert(imported, TransactionData(batch))
                ELSE imported
         err == IF ipc = "raised" THEN ErrorsAfterRaise(errors, batch) ELSE errors
     IN /\ imported' = imp
        /\ errors' = err
        /\ iNotes' = IF iCallback THEN Append(iNotes, Progress(iOff, total, imp, err))
                      ELSE iNotes
        /\ IF iOff + batchSize < total
           THEN /\ iOff' = iOff + batchSize
                /\ ipc' = "insert"
                /\ lastOp' = [name |-> "import", key |-> Null]
                /\ UNCHANGED <<cache, lastSet, iSummary, committed>>
           ELSE /\ ipc' = "done"
                /\ cache' = CacheClear(cache)
                /\ lastSet' = EmptyMap
                /\ lastOp' = [name |-> "clear", key |-> Null]
                /\ iSummary' = Summary(total, imp, err)
                /\ committed' = table
                /\ UNCHANGED iOff
  /\ ret' = Null
  /\ UNCHANGED <<now, table, statsVars, keyVars, iFile, iNew, iStart, iSrc, iCallback, queryVars, uploadVars>>

(***************************************************************************)
(* uploadTransactionsHandler (transactionController.js lines 105-171)       *)
(***************************************************************************)

\* u.endsWith(v)
EndsWith(u, v) == Len(v) <= Len(u) /\ SubSeq(u, Len(u) - Len(v) + 1, Len(u)) = v

\* The file passes the type test: a text/csv mimetype or a .csv name.
IsCsvFile(file) ==
  ~(file.mimetype # "text/csv" /\ ~EndsWith(CodeUnits(file.originalname), CodeUnits(".csv")))

\* req.user?.email || req.body?.userEmail || null
UserEmail(req) ==
  IF req.userEmail # Null THEN req.userEmail
  ELSE IF req.bodyEmail # Null THEN req.bodyEmail
  ELSE Null

\* The row prisma.csvUpload.create stores for the request.
ProcessingRecord(req) ==
  [id |-> "upload-1",
   fileName |-> req.file.originalname,
   fileSize |-> req.file.size,
   totalRecords |-> 0,
   importedRecords |-> 0,
   failedRecords |-> 0,
   status |-> "processing",
   errorMessage |-> Null,
   uploadedBy |-> UserEmail(req)]

\* The upload record after the update that follows a returned ingestion.
CompletedRecord(rec, result) ==
  [rec EXCEPT !.totalRecords = result.totalRecords,
              !.importedRecords = result.imported,
              !.failedRecords = result.errors,
              !.status = IF result.errors > 0 THEN "completed" ELSE "completed",
              !.errorMessage =
                 IF result.errors > 0
                 THEN [units |-> NumberToString(result.errors) \o CodeUnits(" records failed")]
                 ELSE Null]

\* The upload record after the update of the catch block.
FailedRecord(rec, error) ==
  [rec EXCEPT !.status = "failed", !.errorMessage = error]

\* The response after the ingestion returned and the record was updated.
UploadSuccess(rec, result) ==
  [status |-> 200,
   body |-> [message |-> "File uploaded and processed successfully",
             uploadId |-> rec.id,
             success |-> result.success,
             totalRecords |-> result.totalRecords,
             imported |-> result.imported,
             errors |-> result.errors]]

\* The response of the catch block.
UploadFailure(error) ==
  [status |-> 500,
   body |-> [message |-> "Failed to upload transactions", error |-> error.s]]

\* The responses to a request that fails validation.
UploadRejected(message) == [status |-> 400, body |-> [message |-> message]]

UploadIdle ==
  /\ upc = "idle" /\ uReq = Null /\ uRec = Null /\ uErr = Null /\ uResp = Null

\* uploadTransactionsHandler(req, res) up to its first await: a request
\* without a file or with a file that is not CSV is answered with status 400;
\* otherwise the creation of the upload record is issued.
UploadCall(req) ==
  /\ upc \in {"idle", "responded"}
  /\ ipc \in {"idle", "done"}
  /\ uReq' = req
  /\ uRec' = Null
  /\ uErr' = Null
  /\ IF req.file = Null
     THEN upc' = "responded" /\ uResp' = UploadRejected("No file uploaded")
     ELSE IF ~IsCsvFile(req.file)
     THEN /\ upc' = "responded"
          /\ uResp' = UploadRejected("Invalid file type. Please upload a CSV file.")
     ELSE upc' = "creating" /\ uResp' = Null
  /\ UNCHANGED <<cacheVars, keyVars, table, statsVars, ingestVars, queryVars>>

\* The upload record is stored with status processing and the handler calls
\* importTransactionsFromBuffer(req.file.buffer): a buffer that does not parse
\* makes the ingestion raise, and the catch block issues the update that
\* marks the record failed; otherwise the ingestion runs to its first await.
UploadCreated ==
  /\ upc = "creating"
  /\ uRec' = ProcessingRecord(uReq)
  /\ uResp' = Null
  /\ UNCHANGED uReq
  /\ IF "invalid" \in DOMAIN uReq.file.buffer
     THEN /\ upc' = "failing"
          /\ uErr' = [s |-> uReq.file.buffer.invalid]
          /\ UNCHANGED <<cacheVars, keyVars, table, statsVars, ingestVars, queryVars>>
     ELSE /\ upc' = "ingesting"
          /\ uErr' = Null
          /\ ImportBegin("buffer", uReq.file.buffer.rows, FALSE)

\* The creation of the upload record rejects: there is no record to mark, and
\* the catch block answers with status 500.
UploadCreateRaise(message) ==
  /\ upc = "creating"
  /\ upc' = "responded"
  /\ uErr' = [s |-> message]
  /\ uResp' = UploadFailure([s |-> message])
  /\ UNCHANGED <<uReq, uRec>>
  /\ UNCHANGED <<cacheVars, keyVars, table, statsVars, ingestVars, queryVars>>

\* The ingestion has returned its summary: the handler issues the update that
\* writes the final counts.
UploadIngested ==
  /\ upc = "ingesting"
  /\ ipc = "done"
  /\ upc' = "updating"
  /\ UNCHANGED <<uReq, uRec, uErr, uResp>>
  /\ UNCHANGED <<cacheVars, keyVars, table, statsVars, ingestVars, queryVars>>

\* The update is stored and the handler answers with the summary.
UploadUpdated ==
  /\ upc = "updating"
  /\ uRec' = CompletedRecord(uRec, iSummary)
  /\ uResp' = UploadSuccess(uRec, iSummary)
  /\ upc' = "responded"
  /\ UNCHANGED <<uReq, uErr>>
  /\ UNCHANGED <<cacheVars, keyVars, table, statsVars, ingestVars, queryVars>>

\* The update rejects: the catch block takes the error and, the record
\* existing, issues the update that marks it failed.
UploadUpdateRaise(message) ==
  /\ upc = "updating"
  /\ upc' = "failing"
  /\ uErr' = [s |-> message]
  /\ UNCHANGED <<uReq, uRec, uResp>>
  /\ UNCHANGED <<cacheVars, keyVars, table, statsVars, ingestVars, queryVars>>

\* The update of the catch block is stored and the handler answers with
\* status 500.
UploadFailRecorded ==
  /\ upc = "failing"
  /\ uRec' = FailedRecord(uRec, uErr)
  /\ uResp' = UploadFailure(uErr)
  /\ upc' = "responded"
  /\ UNCHANGED <<uReq, uErr>>
  /\ UNCHANGED <<cacheVars, keyVars, table, statsVars, ingestVars, queryVars>>

\* The update of the catch block rejects too: the inner catch logs it and the
\* handler answers with status 500 and the first error.
UploadFailRaise ==
  /\ upc = "failing"
  /\ uResp' = UploadFailure(uErr)
  /\ upc' = "responded"
  /\ UNCHANGED <<uReq, uRec, uErr>>
  /\ UNCHANGED <<cacheVars, keyVars, table, statsVars, ingestVars, queryVars>>

(***************************************************************************)
(* Key scenario: two filter objects are keyed, a value is stored under the *)
(* first key and read back under the second                                *)
(***************************************************************************)

MaxArray == 2

RegionValues == {"North", "South", "East"}
GenderValues == {"Male", "Female"}
AgeRanges == {<<5, 10>>, <<18, 25>>}

\* The arrays of 1..n distinct elements of S.
RECURSIVE ArraysOf(_, _)
ArraysOf(S, n) ==
  IF n = 0 THEN {<<>>}
  ELSE LET shorter == ArraysOf(S, n - 1)
       IN shorter \cup
          {Append(a, x) : <<a, x>> \in
             {<<b, y>> \in shorter \X S :
                Len(b) = n - 1 /\ \A i \in 1..Len(b) : b[i] # y}}

KeyProps ==
  {[name |-> "regions", value |-> a] : a \in ArraysOf(RegionValues, MaxArray) \ {<<>>}}
  \cup {[name |-> "genders", value |-> a] : a \in ArraysOf(GenderValues, MaxArray) \ {<<>>}}
  \cup {[name |-> "ageRange", value |-> a] : a \in AgeRanges}

\* Filter objects with at most two properties, in either insertion order.
KeyFilters ==
  {<<>>} \cup {<<p>> : p \in KeyProps}
  \cup {<<p, q>> : <<p, q>> \in {<<a, b>> \in KeyProps \X KeyProps : a.name # b.name}}

SampleValue == [totalUnits |-> 3, totalAmount |-> 300, totalDiscount |-> 30]

KeyIdle ==
  /\ kIn = <<<<>>, <<>>>> /\ kObj = kIn
  /\ kKey = <<Null, Null>> /\ kpc = 0

CacheEmpty ==
  /\ now = 0
  /\ cache = EmptyMap
  /\ ret = Null
  /\ lastOp = [name |-> "none", key |-> Null]
  /\ lastSet = EmptyMap

KeyInit ==
  /\ CacheEmpty
  /\ table = {}
  /\ StatsIdle
  /\ IngestIdle
  /\ QueryIdle
  /\ UploadIdle
  /\ kIn \in KeyFilters \X KeyFilters
  /\ kObj = kIn
  /\ kKey = <<Null, Null>>
  /\ kpc = 0

\* cache.generateKey('stats', F) on the first object
KeyGenFirst ==
  /\ kpc = 0
  /\ kKey' = [kKey EXCEPT ![1] = generateKey("stats", kObj[1])]
  /\ kObj' = [kObj EXCEPT ![1] = FiltersAfterKey(kObj[1])]
  /\ kpc' = 1
  /\ UNCHANGED <<cacheVars, table, statsVars, ingestVars, kIn, queryVars, uploadVars>>

\* cache.generateKey('stats', F') on the second object
KeyGenSecond ==
  /\ kpc = 1
  /\ kKey' = [kKey EXCEPT ![2] = generateKey("stats", kObj[2])]
  /\ kObj' = [kObj EXCEPT ![2] = FiltersAfterKey(kObj[2])]
  /\ kpc' = 2
  /\ UNCHANGED <<cacheVars, table, statsVars, ingestVars, kIn, queryVars, uploadVars>>

\* cache.set(key(F), value, 30 * 1000)
KeyStore ==
  /\ kpc = 2
  /\ cache' = CacheSet(cache, kKey[1], SampleValue, defaultTTL, now)
  /\ lastSet' = Record(lastSet, kKey[1], [at |-> now, ttl |-> defaultTTL, value |-> SampleValue])
  /\ lastOp' = [name |-> "set", key |-> kKey[1]]
  /\ kpc' = 3
  /\ UNCHANGED <<now, ret, table, statsVars, ingestVars, kIn, kObj, kKey, queryVars, uploadVars>>

\* cache.get(key(F'))
KeyLookup ==
  /\ kpc = 3
  /\ ret' = CacheGetValue(cache, kKey[2], now)
  /\ cache' = CacheAfterGet(cache, kKey[2], now)
  /\ lastOp' = [name |-> "get", key |-> kKey[2]]
  /\ kpc' = 4
  /\ UNCHANGED <<now, lastSet, table, statsVars, ingestVars, kIn, kObj, kKey, queryVars, uploadVars>>

KeyNext == KeyGenFirst \/ KeyGenSecond \/ KeyStore \/ KeyLookup

SpecKey == KeyInit /\ [][KeyNext]_vars

\* The multi-select sub-filters (membership); ageRange and dateRange are ranges.
IsMultiSelect(name) == name \in {"regions", "genders", "categories", "paymentMethods", "tags"}

\* b holds the elements of a, in some order.
IsReordering(a, b) ==
  /\ Len(a) = Len(b)
  /\ \A x \in {a[i] : i \in 1..Len(a)} :
        Cardinality({i \in 1..Len(a) : a[i] = x}) = Cardinality({i \in 1..Len(b) : b[i] = x})

\* G is F with the elements inside its multi-select arrays reordered.
ArraysReordered(F, G) ==
  /\ Len(F) = Len(G)
  /\ \A i \in 1..Len(F) :
        /\ F[i].name = G[i].name
        /\ IF IsMultiSelect(F[i].name)
           THEN IsReordering(F[i].value, G[i].value)
           ELSE F[i].value = G[i].value

\* G holds the same sub-filters with the same values as F, inserted in
\* some (possibly different) order.
PropertiesReordered(F, G) ==
  /\ Len(F) = Len(G)
  /\ {F[i] : i \in 1..Len(F)} = {G[i] : i \in 1..Len(G)}

\* C7: two filter specifications that differ only in the order of the
\* elements inside their multi-select arrays get the same key, and a value
\* stored under the key of one is returned by get under the key of the other.
C7_ArrayOrderIndependent ==
  ArraysReordered(kIn[1], kIn[2]) =>
    /\ (kpc >= 2 => kKey[1] = kKey[2])
    /\ (kpc = 4 => ret = SampleValue)

C7_Witness ==
  /\ kpc = 4
  /\ ArraysReordered(kIn[1], kIn[2])
  /\ kIn[1] # kIn[2]
  /\ Len(kIn[1]) = 2
  /\ kKey[1] = kKey[2]
  /\ ret = SampleValue

\* C8: two filter specifications with the same sub-filters and values,
\* inserted in a different property order, get the identical key.
C8_PropertyOrderIndependent ==
  (kpc >= 2 /\ PropertiesReordered(kIn[1], kIn[2])) => kKey[1] = kKey[2]

(***************************************************************************)
(* The cache under direct calls, getStats calls and the passing of time    *)
(***************************************************************************)

cleanInterval == 300000

\* The instants the clock visits.
Instants == {0, 1000, 29000, 30000, 31000, 300000}

SampleTable == {Row1, Row2, Row3}

CacheStatsFilters ==
  {<<>>, <<[name |-> "regions", value |-> <<"South", "North">>]>>}

CacheKeys == {generateKey("stats", F) : F \in CacheStatsFilters}

CacheValues == {SampleValue, StatsResult(Aggregate(SampleTable, <<>>))}

CacheTTLs == {1000, defaultTTL}

CacheInit ==
  /\ CacheEmpty
  /\ table = SampleTable
  /\ StatsIdle
  /\ IngestIdle
  /\ KeyIdle
  /\ QueryIdle
  /\ UploadIdle

\* Time passes; the clock may pass the instant an armed timer is due at
\* before the callback of the timer runs.
Tick(t) ==
  /\ t > now
  /\ now' = t
  /\ lastOp' = [name |-> "tick", key |-> Null]
  /\ ret' = Null
  /\ UNCHANGED <<cache, lastSet, table, statsVars, keyVars, ingestVars, queryVars, uploadVars>>

\* cache.get(key)
DirectGet(key) ==
  /\ ret' = CacheGetValue(cache, key, now)
  /\ cache' = CacheAfterGet(cache, key, now)
  /\ lastOp' = [name |-> "get", key |-> key]
  /\ UNCHANGED <<now, lastSet, table, statsVars, keyVars, ingestVars, queryVars, uploadVars>>

\* cache.set(key, value, ttl)
DirectSet(key, value, ttl) ==
  /\ cache' = CacheSet(cache, key, value, ttl, now)
  /\ lastSet' = Record(lastSet, key, [at |-> now, ttl |-> ttl, value |-> value])
  /\ lastOp' = [name |-> "set", key |-> key]
  /\ ret' = Null
  /\ UNCHANGED <<now, table, statsVars, keyVars, ingestVars, queryVars, uploadVars>>

\* cache.clear()
DirectClear ==
  /\ cache' = CacheClear(cache)
  /\ lastSet' = EmptyMap
  /\ lastOp' = [name |-> "clear", key |-> Null]
  /\ ret' = Null
  /\ UNCHANGED <<now, table, statsVars, keyVars, ingestVars, queryVars, uploadVars>>

\* The setInterval callback: cache.clean(), not before the first interval.
Sweep ==
  /\ now >= cleanInterval
  /\ cache' = CacheClean(cache, now)
  /\ lastOp' = [name |-> "clean", key |-> Null]
  /\ ret' = Null
  /\ UNCHANGED <<now, lastSet, table, statsVars, keyVars, ingestVars, queryVars, uploadVars>>

CacheNext ==
  \/ \E t \in Instants : Tick(t)
  \/ \E k \in CacheKeys : DirectGet(k)
  \/ \E k \in CacheKeys, v \in CacheValues, ttl \in CacheTTLs : DirectSet(k, v, ttl)
  \/ DirectClear
  \/ Sweep
  \/ \E F \in CacheStatsFilters : StatsCall(1, F)
  \/ StatsQuery(1)
  \/ StatsReturn(1)
  \/ StatsDone(1)

SpecCache == CacheInit /\ [][CacheNext]_vars

\* A step in which cache.get(k) ran (directly or at the head of getStats).
IsGet(op) == op.name \in {"get", "getStats"}

\* What get(k) must do in a step from cache c at time t, if an entry is live
\* exactly when live(t, expiresAt).
GetContract(c, t, k, r, c2, live(_, _)) ==
  /\ r = IF k \in DOMAIN c /\ live(t, c[k].expiresAt) THEN c[k].value ELSE Null
  /\ (r = Null) => k \notin DOMAIN c2
  /\ (r # Null) => (k \in DOMAIN c2 /\ c2[k] = c[k])
  /\ \A j \in (DOMAIN c \cup DOMAIN c2) \ {k} :
        j \in DOMAIN c /\ j \in DOMAIN c2 /\ c2[j] = c[j]

LiveBefore(t, e) == t < e
LiveUntil(t, e) == t <= e

\* C9 (as stated): get(key) returns the stored value exactly when an entry
\* exists and now < expiresAt; otherwise it returns null and the entry, if
\* any, is gone; entries under other keys are untouched.
C9_GetLiveStrictlyBeforeExpiry ==
  [][IsGet(lastOp') => GetContract(cache, now, lastOp'.key, ret', cache', LiveBefore)]_vars

\* C9 (amended): get(key) returns the stored value exactly when an entry
\* exists and now <= expiresAt (the entry is still served at the instant
\* now = expiresAt); otherwise it returns null and the entry, if any, is
\* gone; entries under other keys are untouched.
C9_GetLiveUntilExpiry ==
  [][IsGet(lastOp') => GetContract(cache, now, lastOp'.key, ret', cache', LiveUntil)]_vars

\* A get at the very instant of expiry has just returned the stored value.
C9_Witness ==
  /\ lastOp.name = "get"
  /\ lastOp.key \in DOMAIN cache
  /\ cache[lastOp.key].expiresAt = now
  /\ ret = cache[lastOp.key].value
  /\ Cardinality(DOMAIN cache) = 2

\* C10: a value stored by set(key, v, ttl) at time t is returned by get at
\* every time before t + ttl and absent at every time after t + ttl, as long
\* as no later set or clear touched the key; a set replaces value and expiry
\* (expiresAt = time of the set + its ttl); a stats value (ttl 30 s) is
\* served from the cache at t + 29 s and is a miss at t + 31 s, where
\* getStats issues the aggregate again.
C10_SetThenGet ==
  /\ \A k \in DOMAIN cache :
        /\ k \in DOMAIN lastSet
        /\ cache[k] = [value |-> lastSet[k].value,
                       expiresAt |-> lastSet[k].at + lastSet[k].ttl]
  /\ (IsGet(lastOp) /\ lastOp.key \in DOMAIN lastSet) =>
        LET s == lastSet[lastOp.key]
        IN /\ now < s.at + s.ttl => ret = s.value
           /\ now > s.at + s.ttl => ret = Null
  /\ (lastOp.name = "getStats" /\ lastOp.key \in DOMAIN lastSet) =>
        LET s == lastSet[lastOp.key]
        IN s.ttl = statsTTL =>
             /\ now <= s.at + 29000 => (spc[1] = "done" /\ sHit[1] /\ sRes[1] = s.value)
             /\ now >= s.at + 31000 => (spc[1] = "query" /\ ~sHit[1])

\* getStats has just missed on a value that getStats stored 31 s earlier.
C10_Witness ==
  /\ lastOp.name = "getStats"
  /\ lastOp.key \in DOMAIN lastSet
  /\ lastSet[lastOp.key].ttl = statsTTL
  /\ lastSet[lastOp.key].at = 0
  /\ now = 31000
  /\ spc[1] = "query"
  /\ ret = Null

(***************************************************************************)
(* getStats over every table and filter specification of a small universe  *)
(***************************************************************************)

AllRows == {Row1, Row2, Row3, Row4}

\* The sub-filters a request may carry, in the order the handler inserts them.
StatsProps ==
  << {<<"North">>, <<"South", "North">>},
     {<<"Female">>},
     {<<5, 10>>, <<18, 25>>},
     {<<"Beauty">>},
     {<<"VIP">>, <<"new">>},
     {<<"UPI">>},
     {<<"2023-01-01", "2023-01-02">>} >>

StatsPropNames ==
  <<"regions", "genders", "ageRange", "categories", "tags", "paymentMethods", "dateRange">>

MaxProps == 2

\* The filter objects with at most MaxProps of these sub-filters.
RECURSIVE FiltersFrom(_, _)
FiltersFrom(i, n) ==
  IF i > Len(StatsPropNames) THEN {<<>>}
  ELSE LET rest == FiltersFrom(i + 1, n)
           more == IF n = 0 THEN {} ELSE FiltersFrom(i + 1, n - 1)
       IN rest \cup
          {<<[name |-> StatsPropNames[i], value |-> v]>> \o f :
             <<v, f>> \in StatsProps[i] \X more}

StatsFilters == FiltersFrom(1, MaxProps)

StatsInit ==
  /\ CacheEmpty
  /\ table \in SUBSET AllRows
  /\ StatsIdle
  /\ IngestIdle
  /\ KeyIdle
  /\ QueryIdle
  /\ UploadIdle

\* One call per behaviour, from an empty cache.
\* The errors the storage rejects the aggregate with.
StatsStorageErrors == {"canceling statement due to statement timeout"}

StatsNext ==
  \/ \E F \in StatsFilters : StatsCall(1, F)
  \/ StatsQuery(1)
  \/ StatsReturn(1)
  \/ \E m \in StatsStorageErrors : StatsFail(1, m)

SpecStats == StatsInit /\ [][StatsNext]_vars

\* The rows the read query matches for F with an empty search term.
ReadSet(F) == {r \in table : TxWhere(r, "", F)}

\* C6: on a cache miss getStats(F) returns the sums over exactly the rows that
\* satisfy every sub-filter present in F as supplied, the rows the read query
\* matches for F with an empty search term.
C6_StatsOverReadSet ==
  (spc[1] = "done" /\ ~sHit[1]) =>
     sRes[1] = [totalUnits |-> SumOf(ReadSet(sIn[1]), "quantity"),
                totalAmount |-> SumOf(ReadSet(sIn[1]), "totalAmount"),
                totalDiscount |-> SumOf(ReadSet(sIn[1]), "totalAmount")
                                    - SumOf(ReadSet(sIn[1]), "finalAmount")]

(***************************************************************************)
(* Ingestions, one after another, with getStats calls in flight            *)
(***************************************************************************)

\* A parsed CSV record under the "Transaction ID" header spelling.
Csv(id, name, phone, region, gender, age, category, payment, date, tags, qty, total, final) ==
  ("Transaction ID" :> id) @@ ("Customer Name" :> name) @@ ("Phone Number" :> phone)
  @@ ("Customer Region" :> region) @@ ("Gender" :> gender) @@ ("Age" :> age)
  @@ ("Product Category" :> category) @@ ("Payment Method" :> payment)
  @@ ("Date" :> date) @@ ("Tags" :> tags) @@ ("Quantity" :> qty)
  @@ ("Total Amount" :> total) @@ ("Final Amount" :> final)

Csv1 == Csv("T1", "Alice", "9811", "North", "Male", "7", "Beauty", "Cash", "2023-01-01", "VIP,new", "2", "10.00", "9.00")
Csv2 == Csv("T2", "Bob", "9922", "South", "Female", "20", "Clothing", "UPI", "02-01-2023", "new", "1", "5.00", "5.00")
Csv3 == Csv("T3", "alan", "1198", "North", "Female", "30", "Beauty", "UPI", "2023-01-03", "", "4", "20.00", "15.00")
Csv4 == Csv("T4", "Bo Li", "9815", "East", "Male", "7", "Clothing", "Cash", "2023-01-02", "VIP2", "8", "7.00", "6.50")
\* The identifier of Csv1 on a different sale.
Csv1b == Csv("T1", "Bob", "9922", "South", "Female", "20", "Clothing", "UPI", "2023-01-02", "new", "1", "5.00", "5.00")

\* A record whose age is not a number.
Csv5 == Csv("T5", "Alice", "9811", "North", "Male", "abc", "Beauty", "Cash", "2023-01-01", "VIP", "2", "10.00", "9.00")
\* A record with an empty age and no quantity column.
Csv6 ==
  LET full == Csv("T6", "Bob", "9922", "South", "Female", "", "Clothing", "UPI", "2023-01-02", "new", "1", "5.00", "5.00")
  IN [c \in DOMAIN full \ {"Quantity"} |-> full[c]]

\* The uploaded files: three records in two batches, a file that overlaps it
\* and repeats an identifier, a file with one identifier twice in one batch,
\* a file with numeric columns missing, empty and not numeric, five records
\* in three batches, files with dates missing and unreadable, and a file
\* with a header row only.
\* A record whose date is day-first with a month that does not exist.
Csv7 == Csv("T7", "Alice", "9811", "North", "Male", "7", "Beauty", "Cash", "45-13-2023", "VIP", "2", "10.00", "9.00")
\* Records with an empty date and with a date that is not a date.
Csv8 == Csv("T8", "Bob", "9922", "South", "Female", "20", "Clothing", "UPI", "", "new", "1", "5.00", "5.00")
Csv9 == Csv("T9", "alan", "1198", "North", "Female", "30", "Beauty", "UPI", "someday", "new", "1", "5.00", "5.00")

Files ==
  { <<Csv1, Csv2, Csv3>>,
    <<Csv2, Csv1b, Csv4>>,
    <<Csv1, Csv1b>>,
    <<Csv4, Csv6, Csv5>>,
    <<Csv1, Csv2, Csv3, Csv4, Csv6>>,
    <<Csv8, Csv9>>,
    <<Csv7>>,
    <<>> }

IngestStatsFilters == {<<>>}

IngestInit ==
  /\ CacheEmpty
  /\ table = {}
  /\ StatsIdle
  /\ IngestIdle
  /\ KeyIdle
  /\ QueryIdle
  /\ UploadIdle

IngestNext ==
  \/ \E f \in Files, cb \in BOOLEAN : ImportCall(f, cb)
  \/ \E f \in Files, cb \in BOOLEAN : ImportCsvCall(f, cb)
  \/ InsertRun
  \/ InsertRaise
  \/ ImportResume
  \/ ImportCsvResume

SpecIngest == IngestInit /\ [][IngestNext]_vars

\* The file uploaded while statistics are being read.
RaceFiles == { <<Csv1, Csv2, Csv3>> }

RaceNext ==
  \/ \E f \in RaceFiles : ImportCall(f, FALSE)
  \/ InsertRun
  \/ InsertRaise
  \/ ImportResume
  \/ \E p \in {1, 2}, F \in IngestStatsFilters : StatsCall(p, F)
  \/ \E p \in {1, 2} : StatsQuery(p)
  \/ \E p \in {1, 2} : StatsReturn(p)
  \/ \E p \in {1, 2} : StatsDone(p)

SpecRace == IngestInit /\ [][RaceNext]_vars

Ids(tbl) == {r.transactionId : r \in tbl}

FileIds(records) == {MapRecord(records[j]).transactionId : j \in 1..Len(records)}

\* C2: a getStats call that begins after an ingestion has returned its summary
\* returns aggregates computed over a table state that includes every row
\* stored when that ingestion returned, whatever getStats calls were in
\* flight during the ingestion.
C2_StatsAfterIngestionFresh ==
  \A p \in {1, 2} :
     spc[p] = "done" =>
        \E T \in SUBSET table :
           /\ sSeen[p] \subseteq T
           /\ sRes[p] = StatsResult(Aggregate(T, sObj[p]))

\* C3: the imported count of the summary, and of every progress notification,
\* is the number of rows the ingestion has actually inserted.
C3_ImportedCountsInserted ==
  /\ (ipc \in {"insert", "done"} /\ iNotes # <<>>) => iNotes[Len(iNotes)].imported = iNew
  /\ ipc = "done" => iSummary.imported = iNew

\* C4: no two stored rows share a transactionId; an ingestion that returns
\* with no failed batch leaves every identifier of its file stored; and an
\* ingestion of a file whose identifiers are all stored already (a file
\* imported before) leaves the table as it was.
C4_UniqueIdentifiers ==
  /\ \A r1 \in table, r2 \in table : r1.transactionId = r2.transactionId => r1 = r2
  /\ (ipc = "done" /\ errors = 0) => FileIds(iFile) \subseteq Ids(table)
  /\ (ipc = "done" /\ FileIds(iFile) \subseteq Ids(iStart)) => table = iStart

\* A three-record file has been imported again: nothing was added.
C4_Witness ==
  /\ ipc = "done"
  /\ Len(iFile) = 3
  /\ errors = 0
  /\ FileIds(iFile) \subseteq Ids(iStart)
  /\ table = iStart
  /\ Cardinality(table) >= 3

\* C5: when the insert of a batch raised, the batch's records are all counted
\* as errors, imported is unchanged and nothing is stored; the next batch
\* insert is issued if there is one, and otherwise the summary is returned.
C5_FailedBatchCounted ==
  [][(ipc = "raised" /\ ipc' # "raised") =>
        /\ errors' = errors + Len(BatchAt(iFile, iOff))
        /\ imported' = imported
        /\ table' = table
        /\ IF iOff + batchSize < Len(iFile)
           THEN ipc' = "insert" /\ iOff' = iOff + batchSize
           ELSE /\ ipc' = "done"
                /\ iSummary' = [success |-> TRUE, totalRecords |-> Len(iFile),
                                imported |-> imported, errors |-> errors']]_vars

\* The first batch of a three-record file raised, the second was inserted,
\* and the summary was returned.
C5_Witness ==
  /\ ipc = "done"
  /\ Len(iFile) = 3
  /\ iSummary = [success |-> TRUE, totalRecords |-> 3, imported |-> 1, errors |-> 2]
  /\ Cardinality(table) = 1

(***************************************************************************)
(* Read queries against a fixed table, with the 15 s timer                 *)
(***************************************************************************)

MaxPage == 2
PageSizes == {1, 2, 10}
Searches == {"", "9", "98", "al", "Al x"}
QueryFilters ==
  { <<>>,
    <<[name |-> "regions", value |-> <<"North">>]>>,
    <<[name |-> "tags", value |-> <<"VIP">>]>>,
    <<[name |-> "ageRange", value |-> <<5, 10>>], [name |-> "genders", value |-> <<"Male">>]>> }
SortFields == {"date", "quantity", "customerName", "age"}
SortOrders == {"asc", "desc"}
\* Messages of the errors the storage rejects a query with: the statement
\* timeout of the database, an unreachable server, and the connection pool
\* (connection_limit=1) giving out no connection.
StatementTimeout == "canceling statement due to statement timeout"
ServerUnreachable == "Can't reach database server"
PoolExhausted == "Timed out fetching a new connection from the connection pool. (Current connection pool timeout: 10, connection limit: 1)"
StorageErrors == {StatementTimeout, ServerUnreachable, PoolExhausted}

QueryArgs ==
  [page : 1..MaxPage, pageSize : PageSizes, search : Searches,
   filters : QueryFilters, sortBy : SortFields, sortOrder : SortOrders]

QueryInit ==
  /\ CacheEmpty
  /\ table = AllRows
  /\ StatsIdle
  /\ IngestIdle
  /\ KeyIdle
  /\ QueryIdle
  /\ UploadIdle

QueryNext ==
  \/ \E t \in QueryInstants : Tick(t)
  \/ \E a \in QueryArgs : TxCall(a)
  \/ FetchReply
  \/ CountReply
  \/ \E m \in StorageErrors : StorageError(m)
  \/ TimerFires
  \/ TxDone

SpecQuery == QueryInit /\ [][QueryNext]_vars

\* C1: whenever the 15-second timer goes off while the row fetch or the count
\* of a getTransactions call is still pending, the call ends at once and does
\* not raise: it returns no transactions and the pagination {page, pageSize,
\* totalCount 0, totalPages 0} of its own page and pageSize, whatever the
\* search, filters and sort.
C1_TimeoutGivesEmptyPage ==
  [][(qpc \in {"fetch", "count"} /\ qTimer = "armed" /\ qTimer' = "fired")
       => /\ qpc' = "done"
          /\ qOut'.kind = "result"
          /\ qOut'.transactions = <<>>
          /\ qOut'.pagination = [page |-> qArgs.page, pageSize |-> qArgs.pageSize,
                                 totalCount |-> 0, totalPages |-> 0]]_vars

\* The timer went off during the count of a second page of two matching rows:
\* the rows had been fetched and the call still returned the empty page.
C1_Witness ==
  /\ lastOp.name = "timer"
  /\ qpc = "done"
  /\ qRows # Null /\ Len(qRows.rows) > 0
  /\ qArgs.page = 2
  /\ qOut = EmptyPage(qArgs)

\* The storage failures that are connectivity failures: no query was run.
ConnectivityErrors == {ServerUnreachable, PoolExhausted}

\* C11: a rejection of the fetch or of the count with a connectivity error is
\* rethrown to the caller with its message, and the empty page is returned
\* for a rejection only when the storage timed the statement out.
C11_ConnectivityErrorPropagates ==
  (lastOp.name = "reject" /\ qpc = "done") =>
     IF lastOp.key.s \in ConnectivityErrors
     THEN qOut = [kind |-> "error", message |-> lastOp.key.s]
     ELSE qOut = EmptyPage(qArgs)

\* C12: when the aggregate behind a stats request is rejected because it timed
\* out, getStats ends normally with the zero-valued result {totalUnits 0,
\* totalAmount 0, totalDiscount 0} and the handler does not answer with a
\* failure status.
C12_StatsTimeoutGivesZeros ==
  (lastOp.name = "reject" /\ spc[1] # "query") =>
     /\ spc[1] = "done"
     /\ sRes[1] = [totalUnits |-> 0, totalAmount |-> 0, totalDiscount |-> 0]

\* C13 as stated: a getTransactions call whose fetch or count is pending is
\* never more than 15 seconds past the instant it issued its fetch, and the
\* one timer set before the fetch, due 15 seconds after that instant, is
\* still armed: the count races the same timer and gets no fresh 15 seconds.
C13_SettlesWithinDeadline ==
  qpc \in {"fetch", "count"} =>
     /\ now <= qStart + queryTimeout
     /\ qTimer = "armed"
     /\ qDeadline = qStart + queryTimeout

\* C13, amended: while the fetch or the count of a getTransactions call is
\* pending, the one timer set before the fetch is armed and due 15 seconds
\* after the instant the fetch was issued (the count races the same timer
\* and gets no fresh 15 seconds); the callback of the timer runs no earlier
\* than that instant, possibly later, and settles the call when it runs,
\* whether or not the storage has answered.
C13_SettlesWhenSharedTimerRuns ==
  /\ [](qpc \in {"fetch", "count"} =>
          /\ qTimer = "armed"
          /\ qDeadline = qStart + queryTimeout)
  /\ [][(qTimer = "armed" /\ qTimer' = "fired") =>
          /\ now >= qStart + queryTimeout
          /\ qpc \in {"fetch", "count"} => (qpc' = "done" /\ qOut' = EmptyPage(qArgs))]_vars

\* A call issued at 0 s fetched its rows, the count never answered, the clock
\* passed the 15 s the timer was due at, and the timer ended the call at 16 s.
C13_Witness ==
  /\ lastOp.name = "timer"
  /\ qpc = "done"
  /\ qStart = 0
  /\ now > qStart + queryTimeout
  /\ qRows # Null
  /\ qOut = EmptyPage(qArgs)

\* C14: when getTransactions returns on its normal path (no timeout, the
\* table unchanged during the call), totalCount is the number of rows that
\* match the predicate; it returns straight from the fetch, with no count
\* issued, exactly when page = 1 and the fetch gave fewer rows than pageSize,
\* and totalCount is then the number of rows returned.
C14_TotalCountIsMatchCount ==
  (qpc = "done" /\ lastOp.name \in {"findMany", "count"}) =>
     /\ qOut.kind = "result"
     /\ qOut.pagination.totalCount = Cardinality({r \in table : TxWhere(r, qArgs.search, qArgs.filters)})
     /\ lastOp.name = "findMany" <=> (qArgs.page = 1 /\ Len(qRows.rows) < qArgs.pageSize)
     /\ lastOp.name = "findMany" => qOut.pagination.totalCount = Len(qOut.transactions)

\* The second page of size 2 over three matching rows came back short, so
\* the count was issued and gave 3.
C14_Witness ==
  /\ qpc = "done"
  /\ lastOp.name = "count"
  /\ qArgs.page = 2 /\ qArgs.pageSize = 2
  /\ Len(qOut.transactions) = 1
  /\ qOut.pagination.totalCount = 3

\* Record a does not come after record b when sorting by field in direction dir.
NotAfter(a, b, field, dir) ==
  LET le(x, y) ==
        CASE field = "date" -> DateValue(x.date) <= DateValue(y.date)
          [] field = "quantity" -> x.quantity <= y.quantity
          [] field = "customerName" ->
               ~StrLess(CodeUnits(y.customerName), CodeUnits(x.customerName))
  IN IF dir = "asc" THEN le(a, b) ELSE le(b, a)

\* C15: for a sortable field and a direction, the records getTransactions
\* returns for page p of size P are the records at positions (p-1)*P+1 .. p*P of
\* the matching rows in the requested order (fewer when the rows end earlier,
\* none past the end): their number is right, they are distinct, each is a
\* stored row that satisfies the search and every filter, they are in order,
\* and the i-th of them can stand at position (p-1)*P+i of the ordered rows.
C15_PageOfOrderedMatches ==
  (qpc = "done" /\ lastOp.name \in {"findMany", "count"}
     /\ qArgs.sortBy \in {"date", "quantity", "customerName"}) =>
     LET rows == qOut.transactions
         M == {r \in table : TxWhere(r, qArgs.search, qArgs.filters)}
         first == (qArgs.page - 1) * qArgs.pageSize
         f == qArgs.sortBy
         dir == qArgs.sortOrder
         rest == Cardinality(M) - first
     IN /\ Len(rows) = IF rest <= 0 THEN 0
                        ELSE IF rest < qArgs.pageSize THEN rest ELSE qArgs.pageSize
        /\ \A i \in 1..Len(rows) :
              /\ \E r \in M : rows[i] = Select(r)
              /\ \A j \in 1..Len(rows) : rows[i].transactionId = rows[j].transactionId => i = j
              /\ i < Len(rows) => NotAfter(rows[i], rows[i + 1], f, dir)
              /\ Cardinality({r \in M : ~NotAfter(rows[i], r, f, dir)}) <= first + i - 1
              /\ Cardinality({r \in M : NotAfter(r, rows[i], f, dir)}) >= first + i

\* Males aged 5 to 10 by quantity descending, page 2 of size 1: the second of
\* the two matching rows, the one with the smaller quantity.
C15_Witness ==
  /\ qpc = "done"
  /\ lastOp.name = "count"
  /\ Has(qArgs.filters, "ageRange")
  /\ qArgs.sortBy = "quantity" /\ qArgs.sortOrder = "desc"
  /\ qArgs.page = 2 /\ qArgs.pageSize = 1 /\ qArgs.search = ""
  /\ qOut.transactions = <<Select(Row1)>>
  /\ qOut.pagination.totalCount = 2

(***************************************************************************)
(* The predicate of the read query, over searches and filter objects       *)
(***************************************************************************)

WhereSearches == {"", " ", "9", "98", "b", "al", "AL", "Al x"}

WhereFilters ==
  StatsFilters \cup {<<[name |-> "tags", value |-> <<"VIP2", "new">>]>>}

\* First pages large enough to hold the whole table.
WhereArgs ==
  [page : {1}, pageSize : {10}, search : WhereSearches,
   filters : WhereFilters, sortBy : {"customerName"}, sortOrder : {"asc"}]

WhereNext ==
  \/ \E a \in WhereArgs : TxCall(a)
  \/ FetchReply

SpecWhere == QueryInit /\ [][WhereNext]_vars

\* The stored rows behind the records a call returned.
Returned == {r \in table : \E i \in 1..Len(qOut.transactions) : qOut.transactions[i] = Select(r)}

\* The call has returned its page.
Answered == qpc = "done" /\ lastOp.name = "findMany"

\* Row r satisfies sub-filter p: membership for the multi-select sub-filters,
\* the inclusive range for age and date, any requested tag inside the tag
\* string for tags.
SubFilterHolds(r, p) ==
  CASE p.name = "regions" -> \E i \in 1..Len(p.value) : r.customerRegion = p.value[i]
    [] p.name = "genders" -> \E i \in 1..Len(p.value) : r.gender = p.value[i]
    [] p.name = "categories" -> \E i \in 1..Len(p.value) : r.productCategory = p.value[i]
    [] p.name = "paymentMethods" -> \E i \in 1..Len(p.value) : r.paymentMethod = p.value[i]
    [] p.name = "ageRange" -> p.value[1] <= r.age /\ r.age <= p.value[2]
    [] p.name = "dateRange" -> /\ DateValue(p.value[1]) <= DateValue(r.date)
                               /\ DateValue(r.date) <= DateValue(p.value[2])
    [] p.name = "tags" ->
         /\ r.tags # Null
         /\ \E i \in 1..Len(p.value) :
               \E k \in 0..Len(CodeUnits(r.tags.s)) :
                  /\ k + Len(CodeUnits(p.value[i])) <= Len(CodeUnits(r.tags.s))
                  /\ \A j \in 1..Len(CodeUnits(p.value[i])) :
                        CodeUnits(r.tags.s)[k + j] = CodeUnits(p.value[i])[j]

AllSubFiltersHold(r, F) == \A i \in 1..Len(F) : SubFilterHolds(r, F[i])

\* C16: with no search term and no tag filter, the read query matches exactly
\* the rows that satisfy every sub-filter present at once, a multi-select
\* sub-filter by membership and age and date by the inclusive range; with no
\* sub-filter at all it matches every row of the table.
C16_PredicateIsConjunction ==
  (Answered /\ qArgs.search = "" /\ ~Has(qArgs.filters, "tags")) =>
     /\ Returned = {r \in table : AllSubFiltersHold(r, qArgs.filters)}
     /\ qArgs.filters = <<>> => Returned = table

\* Regions North or South and ages 18 to 25: only Bob's row.
C16_Witness ==
  /\ Answered /\ qArgs.search = ""
  /\ Len(qArgs.filters) = 2
  /\ Has(qArgs.filters, "regions") /\ Get(qArgs.filters, "regions") = <<"South", "North">>
  /\ Has(qArgs.filters, "ageRange") /\ Get(qArgs.filters, "ageRange") = <<18, 25>>
  /\ Returned = {Row2}

\* The trimmed term.
Term == Trim(CodeUnits(qArgs.search))

\* u begins with v
HasPrefix(u, v) == Len(v) <= Len(u) /\ \A i \in 1..Len(v) : u[i] = v[i]

\* Upper-case letters folded to lower case.
Fold(u) == [i \in 1..Len(u) |-> IF u[i] \in 65..90 THEN u[i] + 32 ELSE u[i]]

\* C17: a trimmed term of one character, or of two or more characters all of
\* them digits, selects the rows whose phone number begins with the term
\* (among the rows the filters admit), whatever the customer name; an empty
\* or blank term selects every row the filters admit.
C17_ShortOrNumericTermIsPhonePrefix ==
  Answered =>
     /\ (Len(Term) = 1 \/ (Len(Term) >= 2 /\ \A i \in 1..Len(Term) : Term[i] \in 48..57)) =>
           Returned = {r \in table : /\ TxWhere(r, "", qArgs.filters)
                                     /\ HasPrefix(CodeUnits(r.phoneNumber), Term)}
     /\ Len(Term) = 0 => Returned = {r \in table : TxWhere(r, "", qArgs.filters)}

\* The term "b" selected nothing although two names begin with it, and the
\* filters were empty.
C17_Witness ==
  /\ Answered /\ qArgs.search = "b" /\ qArgs.filters = <<>>
  /\ Returned = {}
  /\ \E r \in table : HasPrefix(Fold(CodeUnits(r.customerName)), Fold(Term))

\* The first white-space-delimited token of a trimmed term.
FirstToken(u) ==
  LET k == IF \E i \in 1..Len(u) : u[i] = 32
           THEN (CHOOSE i \in 1..Len(u) : u[i] = 32 /\ \A j \in 1..(i - 1) : u[j] # 32) - 1
           ELSE Len(u)
  IN SubSeq(u, 1, k)

\* C18: a trimmed term of two or more characters that are not all digits
\* selects the rows whose customer name begins, letter case aside, with the
\* first token of the term (among the rows the filters admit); later tokens
\* and the phone number play no part.
C18_TextTermIsNamePrefixOfFirstToken ==
  (Answered /\ Len(Term) >= 2 /\ \E i \in 1..Len(Term) : Term[i] \notin 48..57) =>
     Returned = {r \in table : /\ TxWhere(r, "", qArgs.filters)
                               /\ HasPrefix(Fold(CodeUnits(r.customerName)), Fold(FirstToken(Term)))}

\* "Al x" selected Alice and alan, as "al" does.
C18_Witness ==
  /\ Answered /\ qArgs.search = "Al x" /\ qArgs.filters = <<>>
  /\ Returned = {Row1, Row3}

\* C19: with a tag filter the read query matches exactly the rows that have a
\* tag string containing at least one requested tag as a substring, and that
\* satisfy every other sub-filter and the search condition.
C19_TagsAnyOfSubstring ==
  (Answered /\ Has(qArgs.filters, "tags")) =>
     Returned = {r \in table : /\ AllSubFiltersHold(r, qArgs.filters)
                               /\ SearchCondition(r, qArgs.search)}

\* Tag VIP with the term "98": the rows tagged "VIP,new" and "VIP2"; the row
\* without tags is not among them.
C19_Witness ==
  /\ Answered /\ qArgs.search = "98"
  /\ qArgs.filters = <<[name |-> "tags", value |-> <<"VIP">>]>>
  /\ Returned = {Row1, Row4}
  /\ Row3 \in table

\* The whole-number columns of the mapped record, with their CSV headers.
IntColumns == <<[field |-> "age", names |-> <<"Age", "age">>],
                [field |-> "quantity", names |-> <<"Quantity", "quantity">>]>>

\* The text of a column is a whole number.
Numeric(record, names) ==
  /\ \E i \in 1..Len(names) : names[i] \in DOMAIN record /\ record[names[i]] # ""
  /\ LET text == CodeUnits(Column(record, names))
     IN text # <<>> /\ \A i \in 1..Len(text) : text[i] \in 48..57

\* C20: a numeric column that is missing, empty or not a number is mapped to
\* 0, and the insert of a batch is never kept from succeeding by such a
\* value: the row is imported with 0 in that field.
C20_NumericColumnsDefaultToZero ==
  /\ \A j \in 1..Len(iFile), c \in 1..Len(IntColumns) :
        ~Numeric(iFile[j], IntColumns[c].names) =>
           MapRecord(iFile[j])[IntColumns[c].field] = 0
  /\ ipc = "insert" => Storable(TransactionData(BatchAt(iFile, iOff)))

(***************************************************************************)
(* Frame of generateKey (cache.js lines 15-24) on the caller's object       *)
(***************************************************************************)

\* C28: generating a key leaves the caller's filter object unchanged: after
\* generateKey has run on an object, every array of that object (ageRange and
\* dateRange included) holds the elements it held before, in the same order.
C28_GenerateKeyLeavesFiltersUnchanged ==
  /\ kpc >= 1 => kObj[1] = kIn[1]
  /\ kpc >= 2 => kObj[2] = kIn[2]

(***************************************************************************)
(* Statistics flow of getStats (transactionService.js lines 308-384)        *)
(***************************************************************************)

\* The entry under key k is live: present and not past its expiry.
Live(k) == k \in DOMAIN cache /\ ~(now > cache[k].expiresAt)

\* C23: a getStats call whose key has a live cache entry returns the cached
\* value without a storage query; a call that misses issues exactly one
\* aggregate query, stores the result under the key with a 30-second
\* time-to-live and returns it.
C23_HitSkipsStorageMissStoresResult ==
  [][/\ (spc[1] = "idle" /\ spc'[1] # "idle") =>
          IF Live(sKey'[1])
          THEN /\ spc'[1] = "done"
               /\ sRes'[1] = cache[sKey'[1]].value
               /\ sAgg'[1] = Null
          ELSE spc'[1] = "query" /\ sRes'[1] = Null
     /\ (spc[1] = "query" /\ spc'[1] # "query") =>
          /\ spc'[1] = "reply"
          /\ sAgg'[1] = Aggregate(table, sObj[1])
          /\ cache' = cache
     /\ (spc[1] = "reply" /\ spc'[1] # "reply") =>
          /\ spc'[1] = "done"
          /\ sRes'[1] = StatsResult(sAgg[1])
          /\ sKey[1] \in DOMAIN cache'
          /\ cache'[sKey[1]] = [value |-> sRes'[1], expiresAt |-> now + 30 * 1000]
     /\ (spc[1] = "done" /\ sHit[1]) => sAgg[1] = Null]_vars

\* A call has hit on a live entry that an earlier call, having missed, stored
\* with the 30-second time-to-live after its one aggregate query.
C23_Witness ==
  /\ spc[1] = "done"
  /\ sHit[1]
  /\ lastOp.name = "getStats"
  /\ sKey[1] \in DOMAIN lastSet
  /\ lastSet[sKey[1]].ttl = 30000
  /\ lastSet[sKey[1]].at < now
  /\ sRes[1] = StatsResult(Aggregate(table, sObj[1]))
  /\ sAgg[1] = Null

(***************************************************************************)
(* Progress notifications of an ingestion (csvImportService lines 200-208)  *)
(***************************************************************************)

\* The number of batches a file of total records is cut into.
BatchCount(total) == (total + batchSize - 1) \div batchSize

\* C21: with a progress callback, an ingestion emits exactly one notification
\* after each batch; the k-th carries processed = min(batchSize * k, total),
\* the total and the cumulative imported and errors counts; processed,
\* imported and errors never decrease from one notification to the next; the
\* last notification has processed = total and the counts of the summary.
C21_ProgressAfterEachBatch ==
  LET total == Len(iFile)
  IN /\ ~iCallback => iNotes = <<>>
     /\ \A k \in 1..Len(iNotes) :
           /\ iNotes[k].processed = Min(batchSize * k, total)
           /\ iNotes[k].total = total
           /\ k > 1 => /\ iNotes[k].processed > iNotes[k - 1].processed
                       /\ iNotes[k].imported >= iNotes[k - 1].imported
                       /\ iNotes[k].errors >= iNotes[k - 1].errors
     /\ (iCallback /\ ipc \in {"insert", "ok", "raised"}) =>
           /\ Len(iNotes) * batchSize = iOff
           /\ Len(iNotes) > 0 => /\ iNotes[Len(iNotes)].imported = imported
                                 /\ iNotes[Len(iNotes)].errors = errors
     /\ (iCallback /\ ipc = "done") =>
           /\ Len(iNotes) = BatchCount(total)
           /\ total > 0 =>
                /\ iNotes[Len(iNotes)].processed = total
                /\ iNotes[Len(iNotes)].imported = iSummary.imported
                /\ iNotes[Len(iNotes)].errors = iSummary.errors

\* An ingestion of five records has finished after three notifications, one
\* of its batches having failed and one having succeeded.
C21_Witness ==
  /\ ipc = "done"
  /\ iCallback
  /\ Len(iFile) = 5
  /\ Len(iNotes) = 3
  /\ iNotes[1].processed = batchSize
  /\ iNotes[3].processed = 5
  /\ iNotes[1].errors < iNotes[3].errors
  /\ iNotes[1].imported > 0
  /\ iSummary.imported = iNotes[3].imported

(***************************************************************************)
(* Batching of an ingestion (csvImportService lines 152-155)                *)
(***************************************************************************)

\* C25: an ingestion handles its rows in input order in consecutive batches
\* of exactly batchSize rows, the last batch holding the remainder; a batch
\* is handed to the storage only after the insert of the batch before it has
\* settled, so at most one insert of an ingestion is in flight.
C25_ConsecutiveBatchesOneInFlight ==
  /\ [](ipc \in {"insert", "ok", "raised"} =>
          LET total == Len(iFile)
              batch == BatchAt(iFile, iOff)
          IN /\ iOff % batchSize = 0
             /\ iCallback => iOff = batchSize * Len(iNotes)
             /\ iOff < total
             /\ Len(batch) = Min(batchSize, total - iOff)
             /\ Len(batch) < batchSize => iOff + Len(batch) = total
             /\ \A j \in 1..Len(batch) : batch[j] = iFile[iOff + j])
  /\ [][/\ ipc = "insert" => \/ ipc' \in {"ok", "raised"} /\ UNCHANGED <<iOff, iFile>>
                             \/ UNCHANGED <<ipc, iOff, iFile, table>>
        /\ (ipc \in {"ok", "raised"} /\ ipc' = "insert") =>
              iOff' = iOff + batchSize /\ iFile' = iFile
        /\ table' # table =>
              /\ ipc = "insert" /\ ipc' = "ok"
              /\ table' = CreateMany(table, TransactionData(BatchAt(iFile, iOff)))]_vars

\* The insert of the third batch, the one remaining record of five, is in
\* flight after the first two batches have settled.
C25_Witness ==
  /\ ipc = "insert"
  /\ Len(iFile) = 5
  /\ iOff = 2 * batchSize
  /\ ~iCallback
  /\ Len(BatchAt(iFile, iOff)) = 5 - 2 * batchSize

(***************************************************************************)
(* Counters of an ingestion (csvImportService lines 149-150, 196, 198)      *)
(***************************************************************************)

\* C29: at every point of an ingestion imported >= 0, errors >= 0 and
\* imported + errors <= totalRecords; a settled batch adds its rows to
\* exactly one of the two counters, and neither counter decreases while the
\* ingestion runs.
C29_CountersBoundedAndMonotone ==
  /\ [](/\ imported >= 0
        /\ errors >= 0
        /\ imported + errors <= Len(iFile)
        /\ ipc \in {"insert", "ok", "raised"} => imported + errors <= iOff
        /\ ipc = "done" => /\ iSummary.imported = imported
                           /\ iSummary.errors = errors
                           /\ iSummary.totalRecords = Len(iFile)
                           /\ imported + errors = Len(iFile))
  /\ [][(ipc \in {"ok", "raised"} /\ ipc' \notin {"ok", "raised"}) =>
           LET n == Len(BatchAt(iFile, iOff))
           IN \/ ipc = "ok" /\ imported' = imported + n /\ errors' = errors
              \/ ipc = "raised" /\ errors' = errors + n /\ imported' = imported]_vars
  /\ [][(ipc \in {"insert", "ok", "raised"}) =>
           (imported' >= imported /\ errors' >= errors)]_vars

\* An ingestion has finished with one batch counted as imported and one
\* counted as errors.
C29_Witness ==
  /\ ipc = "done"
  /\ Len(iFile) = 3
  /\ imported > 0
  /\ errors > 0
  /\ imported + errors = 3

(***************************************************************************)
(* Ingestion beside a cache that holds entries of more than one prefix      *)
(***************************************************************************)

ClearFiles == { <<Csv1, Csv2, Csv3>>, <<Csv4, Csv6, Csv5>>, <<>> }

\* Keys of two prefixes, as generateKey builds them.
ClearKeys == {generateKey("stats", <<>>), generateKey("options", <<>>)}

\* Both ingestion functions run beside calls that put entries of two prefixes
\* in the cache.
ClearNext ==
  \/ \E f \in ClearFiles, cb \in BOOLEAN : ImportCall(f, cb)
  \/ \E f \in ClearFiles, cb \in BOOLEAN : ImportCsvCall(f, cb)
  \/ InsertRun
  \/ InsertRaise
  \/ ImportResume
  \/ ImportCsvResume
  \/ \E k \in ClearKeys : DirectSet(k, SampleValue, defaultTTL)

SpecClear == IngestInit /\ [][ClearNext]_vars

\* C24: every ingestion that completes, whatever it imported (zero rows
\* included), runs cache.clear() after its last batch has settled and before
\* it returns its summary, and the clear removes the entries of every key
\* prefix, not only the statistics entries.
C24_CompletedIngestionClearsCache ==
  [][(ipc' = "done" /\ (ipc # "done" \/ iFile' # iFile)) =>
        /\ cache' = EmptyMap
        /\ ipc \in {"ok", "raised"} \/ iFile' = <<>>
        /\ ~(iOff' + batchSize < Len(iFile'))
        /\ iSummary' = Summary(Len(iFile'), imported', errors')]_vars

\* The last batch of an ingestion has failed and the ingestion is about to
\* resume, finish and return, while the cache holds a live entry of each of
\* the two prefixes.
C24_Witness ==
  /\ ipc = "raised"
  /\ Len(iFile) > 0
  /\ ~(iOff + batchSize < Len(iFile))
  /\ DOMAIN cache = ClearKeys
  /\ \E k \in DOMAIN cache : k[1] # "stats"

(***************************************************************************)
(* parseDate (csvImportService lines 111-133)                               *)
(***************************************************************************)

\* The day-first spelling DD-MM-YYYY of the ISO spelling v of a date.
DayFirst(v) ==
  SubSeq(v, 9, 10) \o <<45>> \o SubSeq(v, 6, 7) \o <<45>> \o SubSeq(v, 1, 4)

\* The code units u spell the calendar date d in ISO or day-first form.
Spells(u, d) == u = CodeUnits(d) \/ u = DayFirst(CodeUnits(d))

\* C26: parseDate maps a DD-MM-YYYY or ISO date string to that calendar date
\* and a missing or unparseable string, whatever its shape, to the current
\* date; the date of a mapped record is never an invalid date.
C26_UnparseableDateIsToday ==
  \A j \in 1..Len(iFile) :
     LET has == HasColumn(iFile[j], <<"Date", "date">>)
         u == IF has THEN CodeUnits(Column(iFile[j], <<"Date", "date">>)) ELSE <<>>
         date == MapRecord(iFile[j]).date
     IN /\ date # InvalidDate
        /\ \A d \in DateStrings : has /\ Spells(u, d) => date = d
        /\ ~(has /\ \E d \in DateStrings : Spells(u, d)) => date = Today

(***************************************************************************)
(* The two ingestion entry points (csvImportService lines 14-104, 141-224)  *)
(***************************************************************************)

\* The loop of importTransactionsFromBuffer from offset i on, as a function of
\* the records, of the outcome of each insert (raisedAt[k]: the insert of
\* batch k raised), of whether a callback was passed and of the table,
\* counters and notifications so far.
RECURSIVE BufferLoop(_, _, _, _, _)
BufferLoop(records, raisedAt, callback, i, acc) ==
  IF ~(i < Len(records)) THEN acc
  ELSE LET batch == BatchAt(records, i)
           data == TransactionData(batch)
           raised == raisedAt[i \div batchSize + 1]
           imp == IF raised THEN acc.imported ELSE ImportedAfterInsert(acc.imported, data)
           err == IF raised THEN ErrorsAfterRaise(acc.errors, batch) ELSE acc.errors
       IN BufferLoop(records, raisedAt, callback, i + batchSize,
                     [table |-> IF raised THEN acc.table ELSE CreateMany(acc.table, data),
                      imported |-> imp,
                      errors |-> err,
                      notes |-> IF callback
                                THEN Append(acc.notes, Progress(i, Len(records), imp, err))
                                ELSE acc.notes])

\* What importTransactionsFromBuffer leaves behind for the records, the table
\* it started on, the insert outcomes, the callback choice and the cache c it
\* finishes beside.
BufferOutcome(records, start, raisedAt, callback, c) ==
  LET r == BufferLoop(records, raisedAt, callback, 0,
                      [table |-> start, imported |-> 0, errors |-> 0, notes |-> <<>>])
  IN [table |-> r.table,
      summary |-> Summary(Len(records), r.imported, r.errors),
      notes |-> r.notes,
      cache |-> CacheClear(c)]

\* The insert outcomes a run over n batches can meet.
Outcomes(n) == [1..n -> BOOLEAN]

\* C27: importTransactionsFromCSV and importTransactionsFromBuffer are
\* equivalent: on the same bytes, starting from the same storage state, the
\* step on which a run of either function finishes leaves the storage
\* contents, the returned summary, the progress notifications and the cache
\* that the buffer loop yields for some outcomes of the inserts (a batch that
\* cannot be stored having raised) and for the cache the run finishes beside.
C27_PathAndBufferIngestionAgree ==
  [][(ipc' = "done" /\ (ipc # "done" \/ iFile' # iFile)) =>
        \E raisedAt \in Outcomes(BatchCount(Len(iFile'))) :
           LET out == BufferOutcome(iFile', iStart', raisedAt, iCallback', cache)
           IN /\ table' = out.table
              /\ iSummary' = out.summary
              /\ iNotes' = out.notes
              /\ cache' = out.cache
              /\ \A k \in 1..BatchCount(Len(iFile')) :
                    ~Storable(TransactionData(BatchAt(iFile', (k - 1) * batchSize)))
                       => raisedAt[k]]_vars

\* importTransactionsFromCSV, run on a table that already held rows, has had
\* its first batch fail and its last batch stored and is about to finish,
\* while the cache holds a live entry of each of the two prefixes.
C27_Witness ==
  /\ iSrc = "path"
  /\ ipc = "ok"
  /\ Len(iFile) = 3
  /\ ~(iOff + batchSize < Len(iFile))
  /\ iStart # {}
  /\ errors > 0
  /\ table # iStart
  /\ DOMAIN cache = ClearKeys

(***************************************************************************)
(* Uploads: the handler, the ingestion it runs and the upload record        *)
(***************************************************************************)

\* A file of the request: name, mimetype, size and what the buffer holds,
\* parsed rows or the error the parser raises on it.
UploadFile(name, type, size, buffer) ==
  [originalname |-> name, mimetype |-> type, size |-> size, buffer |-> buffer]

\* The requests: CSV files by mimetype and by name with rows that all store,
\* with a batch the storage rejects and with no row, a buffer that does not
\* parse, a file that is not CSV, and a request without a file.
UploadRequests ==
  { [file |-> UploadFile("sales.csv", "text/csv", 300, [rows |-> <<Csv1, Csv2, Csv3>>]),
     userEmail |-> [s |-> "ann@shop"], bodyEmail |-> [s |-> "bob@shop"]],
    [file |-> UploadFile("sales.csv", "application/vnd.ms-excel", 200, [rows |-> <<Csv4, Csv6, Csv5>>]),
     userEmail |-> Null, bodyEmail |-> [s |-> "bob@shop"]],
    [file |-> UploadFile("export", "text/csv", 10, [rows |-> <<>>]),
     userEmail |-> Null, bodyEmail |-> Null],
    [file |-> UploadFile("sales.csv", "text/csv", 50, [invalid |-> "Invalid Record Length"]),
     userEmail |-> Null, bodyEmail |-> Null],
    [file |-> UploadFile("notes.txt", "text/plain", 20, [rows |-> <<Csv1>>]),
     userEmail |-> Null, bodyEmail |-> Null],
    [file |-> Null, userEmail |-> Null, bodyEmail |-> Null] }

\* The errors a call on csv_uploads rejects with.
UploadStorageErrors == {"Can't reach database server"}

UploadNext ==
  \/ \E r \in UploadRequests : UploadCall(r)
  \/ UploadCreated
  \/ \E m \in UploadStorageErrors : UploadCreateRaise(m)
  \/ InsertRun
  \/ InsertRaise
  \/ ImportResume
  \/ UploadIngested
  \/ UploadUpdated
  \/ \E m \in UploadStorageErrors : UploadUpdateRaise(m)
  \/ UploadFailRecorded
  \/ UploadFailRaise

SpecUpload == IngestInit /\ [][UploadNext]_vars

\* The ingestion of the request has raised: its buffer does not parse.
IngestionRaised == "invalid" \in DOMAIN uReq.file.buffer

\* C22: the handler creates the upload record with status processing before
\* the ingestion begins; when the ingestion returns a summary the record is
\* updated with the final totalRecords, importedRecords and failedRecords and
\* the status completed, also when errors > 0; when the ingestion raises the
\* record is updated to failed with the error message and the error is
\* reported to the caller.
C22_UploadRecordFollowsIngestion ==
  /\ [](upc = "ingesting" => (uRec # Null /\ uRec = ProcessingRecord(uReq)))
  /\ [][(upc = "creating" /\ ingestVars' # ingestVars) =>
          (upc' = "ingesting" /\ uRec' = ProcessingRecord(uReq))]_vars
  /\ []((upc = "responded" /\ uRec # Null) =>
          IF IngestionRaised
          THEN /\ uRec.status = "failed"
               /\ uRec.errorMessage = [s |-> uReq.file.buffer.invalid]
               /\ uResp.status = 500
               /\ uResp.body.error = uReq.file.buffer.invalid
          ELSE /\ uRec.status = "completed"
               /\ uRec.totalRecords = iSummary.totalRecords
               /\ uRec.importedRecords = iSummary.imported
               /\ uRec.failedRecords = iSummary.errors)

\* C30: the status of an upload record changes at most once, from processing
\* to completed or to failed; once the handler has responded the record is
\* no longer processing; the record is failed only when the ingestion itself
\* raised, so a record whose ingestion returned a summary is never marked
\* failed, also when a storage call that updates the record fails.
C30_UploadStatusSettlesOnce ==
  /\ []((upc = "responded" /\ uRec # Null) =>
          /\ uRec.status # "processing"
          /\ uRec.status = "failed" => IngestionRaised)
  /\ [][(uRec # Null /\ uRec' # Null /\ uRec'.status # uRec.status) =>
          /\ uRec.status = "processing"
          /\ uRec'.status \in {"completed", "failed"}]_vars

====
